---- MODULE Spec2Model ----
(***************************************************************************)
(* Model of the catalog reconciliation pass of rax85/photobackup:          *)
(* media_server/media_scanner.py (get_file_sha256, is_media_file,          *)
(* generate_thumbnail, scan_directory).                                    *)
(*                                                                         *)
(* The state is the media tree on disk (fs), the thumbnail directory       *)
(* (thumbs, shards) and the catalog the caller holds between passes and    *)
(* hands back as existing_data (catalog).  A pass is one action: it runs   *)
(* the validation loop, the directory walk and the orphan cleanup of       *)
(* scan_directory in sequence.  The environment edits files and the        *)
(* thumbnail directory between passes.                                     *)
(*                                                                         *)
(* A second specification, SpecConcurrent, splits a pass into its entry    *)
(* and the rest, and a thumbnail write into open and close, to interleave   *)
(* passes, uploads (server.py put_image) and readers (server.py             *)
(* get_thumbnail, a reader of the catalog dict).                            *)
(*                                                                         *)
(* Not modelled: original_creation_date (EXIF / ctime), which is written   *)
(* with every new entry and read by no branch of scan_directory.           *)
(***************************************************************************)
EXTENDS Naturals, Sequences, FiniteSets, TLC

VARIABLES
    rootExists, \* TRUE when the storage root is an existing directory
    fs,         \* media files under the storage root: path -> file
    thumbs,     \* files under <storage root>/.thumbnails
    shards,     \* subdirectories of .thumbnails that exist
    listing,    \* the order in which os.walk lists the files of fs
    catalog,    \* the dict scan_directory returned last (sha -> entry)
    changes,    \* number of environment edits so far
    clean,      \* TRUE when nothing was edited since the last pass returned
    lastScan,   \* observation of the last pass: mode and effects
    pc,         \* per trigger of a pass: where its call of scan_directory is
    marked,     \* shas of catalog records carrying _abs_file_path_for_check
    writing,    \* <<writer, thumbnail file>>: save() calls in progress
    partial,    \* thumbnail files whose content is incomplete
    seen,       \* what a reader or an exists-check observed last
    blocked,    \* shard names at which os.makedirs fails (taken by a file)
    db,         \* the media_files table, the open transaction, the last call
    img,        \* the image generate_thumbnail works on and what it made of it
    up,         \* the upload directory, its records, the PUT requests in progress
    web,        \* what GET /thumbnail/<sha> looks at, and its last response
    bg,         \* the settings, the background scanner thread and its sleep
    geo,        \* the GeoLocator singleton, its lock and the threads using it
    ur,         \* an upload and a pass over the same storage root, step by step
    task        \* background_scanner_task: its configuration, position and connection

\* The part of the state only SpecConcurrent changes.
conc == <<pc, marked, writing, partial, seen>>

\* The state of the scanner and of what runs beside it.
scanner == <<rootExists, fs, listing, thumbs, shards, catalog, changes, clean,
             lastScan, pc, marked, writing, partial, seen, blocked>>

\* The state of the parts specified apart from the scanner.
apart == <<db, img, up, web, bg, geo, ur, task>>

\* What the calls of the database module leave alone.
BesidesDb == <<scanner, img, up, web, bg, geo, ur, task>>

\* What the composition of one thumbnail leaves alone.
BesidesImg == <<scanner, db, up, web, bg, geo, ur, task>>

\* What put_image leaves alone.
BesidesUp == <<scanner, db, img, web, bg, geo, ur, task>>

\* What GET /thumbnail/<sha> and the changes it is tried against leave
\* alone.
BesidesWeb == <<scanner, db, img, up, bg, geo, ur, task>>

\* What the settings route and the background scanner thread leave alone.
BesidesBg == <<scanner, db, img, up, web, geo, ur, task>>

\* What GeoLocator leaves alone.
BesidesGeo == <<scanner, db, img, up, web, bg, ur, task>>

\* What an upload racing a pass leaves alone besides the scanner's state.
BesidesUr == <<db, img, up, web, bg, geo, task>>

\* What background_scanner_task leaves alone.
BesidesTask == <<scanner, db, img, up, web, bg, geo, ur>>

vars == <<rootExists, fs, listing, thumbs, shards, catalog, changes, clean,
          lastScan, pc, marked, writing, partial, seen, blocked, db, img,
          up, web, bg, geo, ur, task>>

----------------------------------------------------------------------------
(* Bounds *)

MaxTime == 2
MaxChanges == 3

----------------------------------------------------------------------------
(* Values *)

\* Content digests, as sequences of hex characters.
H1 == <<"a", "a", "1">>
H2 == <<"a", "a", "2">>
H3 == <<"b", "b", "3">>
Hashes == {H1, H2, H3}

\* What get_file_sha256 returns on IOError.
NoSha == <<>>

\* Paths relative to the storage root.
PathA == [dir |-> "", stem |-> "a", ext |-> "jpg"]
PathB == [dir |-> "", stem |-> "b", ext |-> "jpg"]
PathV == [dir |-> "sub", stem |-> "v", ext |-> "mp4"]
Paths == {PathA, PathB, PathV}

\* Files that are no media: a text file, a file without extension, a file
\* with an extension mimetypes does not know.
PathT == [dir |-> "", stem |-> "notes", ext |-> "txt"]
PathN == [dir |-> "", stem |-> "README", ext |-> ""]
PathX == [dir |-> "", stem |-> "blob", ext |-> "xyz"]
OtherPaths == {PathT, PathN, PathX}

\* A media file in a directory below "sub" that has the name of the
\* thumbnail directory.
NestedDir == "sub/.thumbnails"
PathNested == [dir |-> NestedDir, stem |-> "n", ext |-> "jpg"]
Dirs == <<"", "sub">>

Times == 1..MaxTime

THUMBNAIL_DIR_NAME == ".thumbnails"
THUMBNAIL_EXTENSION == "png"
ROOT == <<>>

\* A file below the thumbnail directory: dir is ROOT or a shard name.
ThumbFile(d, s, e) == [dir |-> d, stem |-> s, ext |-> e]

\* The value of an unset thumbnail_file (Python None).
NoThumb == ThumbFile(ROOT, <<>>, "")

----------------------------------------------------------------------------
(* Leaf functions *)

\* mimetypes.guess_type(path)[0], as <<major, minor>>, <<>> when unknown.
guess_type(p) ==
    CASE p.ext = "jpg" -> <<"image", "jpeg">>
      [] p.ext = "png" -> <<"image", "png">>
      [] p.ext = "mp4" -> <<"video", "mp4">>
      [] p.ext = "txt" -> <<"text", "plain">>
      [] OTHER -> <<>>

is_image(p) == guess_type(p) # <<>> /\ guess_type(p)[1] = "image"

is_media_file(p) ==
    /\ guess_type(p) # <<>>
    /\ guess_type(p)[1] \in {"image", "video"}

\* The file name on disk of a relative path.
disk_filename(p) == [stem |-> p.stem, ext |-> p.ext]

\* get_file_sha256 that reads a file whatever its permissions.
get_file_sha256_Reads(F, p) ==
    IF p \in DOMAIN F THEN F[p].sha ELSE NoSha

get_file_sha256(F, p) ==
    IF p \in DOMAIN F /\ F[p].readable THEN F[p].sha ELSE NoSha

sha256_prefix(h) == SubSeq(h, 1, 2)

ShardedThumb(h) == ThumbFile(sha256_prefix(h), h, THUMBNAIL_EXTENSION)
FlatThumb(h) == ThumbFile(ROOT, h, THUMBNAIL_EXTENSION)

\* Dict helpers.
DictSet(d, k, v) == [x \in (DOMAIN d) \cup {k} |-> IF x = k THEN v ELSE d[x]]
DictDel(d, k) == [x \in (DOMAIN d) \ {k} |-> d[x]]

----------------------------------------------------------------------------
(* The state a pass works on.  data is current_media_data; T and D are the *)
(* thumbnail files and shard directories; removed is shas_to_remove; the   *)
(* other fields log the pass: writes to the dict, thumbnail files created  *)
(* and deleted, the paths handed to get_file_sha256 (hashed) and the paths *)
(* handed to generate_thumbnail (requested); raised is set when an         *)
(* exception has left scan_directory; rmdirs are the directories the       *)
(* cleanup has removed.                                                    *)

PassState(data, T, D) ==
    [data |-> data, T |-> T, D |-> D, removed |-> {},
     writes |-> 0, created |-> {}, deleted |-> {},
     hashed |-> {}, requested |-> {}, raised |-> FALSE, rmdirs |-> {}]

\* os.remove of a thumbnail file that exists.
RemoveThumb(S, t) ==
    [S EXCEPT !.T = @ \ {t}, !.deleted = @ \cup {t}]

\* What stands for an OSError leaving generate_thumbnail.
OSErrorRaised == ThumbFile(ROOT, <<>>, "OSError")

\* A variant of generate_thumbnail without the os.path.exists test: the
\* thumbnail is encoded and written whether or not the target exists.
generate_thumbnail_Reencode(S, F, p, h) ==
    LET target == ShardedThumb(h)
    IN  IF p \in DOMAIN F /\ F[p].decodable
        THEN <<[S EXCEPT !.T = @ \cup {target},
                         !.D = @ \cup {sha256_prefix(h)},
                         !.created = @ \cup {target},
                         !.requested = @ \cup {p}], target>>
        ELSE <<[S EXCEPT !.requested = @ \cup {p}], NoThumb>>

\* generate_thumbnail(source, thumbnail_dir, sha): <<state, returned path>>.
\* os.makedirs(thumbnail_subdir, exist_ok=True) comes before the try block:
\* its error leaves the function.
generate_thumbnail(S, F, p, h) ==
    IF Len(h) < 2 THEN <<[S EXCEPT !.requested = @ \cup {p}], NoThumb>>
    ELSE IF sha256_prefix(h) \in blocked
    THEN <<[S EXCEPT !.requested = @ \cup {p}], OSErrorRaised>>
    ELSE
      LET S1 == [S EXCEPT !.D = @ \cup {sha256_prefix(h)},
                          !.requested = @ \cup {p}]
          target == ShardedThumb(h)
      IN  IF target \in S1.T THEN <<S1, target>>
          ELSE IF p \in DOMAIN F /\ F[p].decodable
               THEN <<[S1 EXCEPT !.T = @ \cup {target},
                                 !.created = @ \cup {target}], target>>
               ELSE <<S1, NoThumb>>

\* The thumbnail removal that follows every removal of an entry in the
\* validation loop: the cached path when it is set, else the sharded path,
\* else the flat legacy path.
DeleteThumbnailOf(S, sha, data) ==
    IF data.thumbnail_file # NoThumb
    THEN IF data.thumbnail_file \in S.T
         THEN RemoveThumb(S, data.thumbnail_file)
         ELSE S
    ELSE LET potential == IF ShardedThumb(sha) \in S.T
                          THEN ShardedThumb(sha)
                          ELSE FlatThumb(sha)
         IN  IF potential \in S.T THEN RemoveThumb(S, potential) ELSE S

\* A variant of the removal of an entry that deletes the thumbnail and
\* forgets to put the hash on shas_to_remove.
DropEntry_KeepsRecord(S, sha, data) ==
    DeleteThumbnailOf(S, sha, data)

\* shas_to_remove.append(sha) followed by the removal of its thumbnail.
DropEntry(S, sha, data) ==
    [DeleteThumbnailOf(S, sha, data) EXCEPT !.removed = @ \cup {sha}]

\* A variant of the timestamp-only branch that encodes the thumbnail of an
\* image anew whether or not the entry has one.
TimestampOnly_Reencode(S, F, sha, p, current_last_modified) ==
    LET S1 == [S EXCEPT !.data[sha].last_modified = current_last_modified,
                        !.writes = @ + 1]
        target == ShardedThumb(sha)
    IN  IF is_image(p) /\ F[p].decodable
        THEN [S1 EXCEPT !.T = @ \cup {target},
                        !.D = @ \cup {sha256_prefix(sha)},
                        !.created = @ \cup {target},
                        !.data[sha].thumbnail_file = target]
        ELSE S1

\* The branch "SHA is same, only mtime changed".
TimestampOnly(S, F, sha, p, current_last_modified) ==
    LET S1 == [S EXCEPT !.data[sha].last_modified = current_last_modified,
                        !.writes = @ + 1]
    IN  IF S.data[sha].thumbnail_file = NoThumb /\ is_image(p)
        THEN LET g == generate_thumbnail(S1, F, p, sha)
             IN  IF g[2] = OSErrorRaised
                 THEN DropEntry(g[1], sha, g[1].data[sha])
                 ELSE IF g[2] # NoThumb
                 THEN [g[1] EXCEPT !.data[sha].thumbnail_file = g[2],
                                   !.writes = @ + 1]
                 ELSE g[1]
        ELSE S1

\* What the steps of the handling of one file find on disk, one tree per
\* step: at os.path.isfile, at os.path.getmtime, at get_file_sha256 and at
\* Image.open.  The trees are the same unless a file is deleted between two
\* steps.
Views(F) == [isfile |-> F, meta |-> F, hash |-> F, thumb |-> F]

\* A variant of the validation of one entry that never re-hashes: an entry
\* is dropped only when its file is gone.
ValidateEntry_NoRehash(S, V, sha) ==
    LET data == S.data[sha]
    IN  IF data.file_path \notin DOMAIN V.isfile
        THEN DropEntry(S, sha, data)
        ELSE S

\* One iteration of the loop over the known entries of a rescan.  A file
\* gone at getmtime raises OSError, which the loop's except branch answers
\* like a missing file.
ValidateEntry(S, V, sha) ==
    LET data == S.data[sha]
        p == data.file_path
    IN  IF p \notin DOMAIN V.isfile
        THEN DropEntry(S, sha, data)
        ELSE IF p \notin DOMAIN V.meta
        THEN DropEntry(S, sha, data)
        ELSE IF V.meta[p].mtime # data.last_modified
             THEN LET new_sha256_hex == get_file_sha256(V.hash, p)
                      Sh == [S EXCEPT !.hashed = @ \cup {p}]
                  IN  IF new_sha256_hex # NoSha /\ new_sha256_hex # sha
                      THEN DropEntry(Sh, sha, data)
                      ELSE IF new_sha256_hex = sha
                           THEN TimestampOnly(Sh, V.thumb, sha, p, V.meta[p].mtime)
                           ELSE DropEntry(Sh, sha, data)
             ELSE S

RECURSIVE ValidateAll(_, _, _)
ValidateAll(S, V, todo) ==
    IF todo = {} THEN S
    ELSE LET sha == CHOOSE h \in todo : TRUE
         IN  ValidateAll(ValidateEntry(S, V, sha), V, todo \ {sha})

\* for sha in shas_to_remove: del current_media_data[sha]
RECURSIVE RemoveShas(_, _)
RemoveShas(S, todo) ==
    IF todo = {} THEN S
    ELSE LET sha == CHOOSE h \in todo : TRUE
             S1 == IF sha \in DOMAIN S.data
                   THEN [S EXCEPT !.data = DictDel(@, sha), !.writes = @ + 1]
                   ELSE S
         IN  RemoveShas(S1, todo \ {sha})

\* The rescan block: validate every known entry, then drop the removed ones.
ValidateKnown(S, V) ==
    LET S1 == ValidateAll(S, V, DOMAIN S.data)
    IN  RemoveShas(S1, S1.removed)

\* A variant of the write test that holds only for a hash the dict already
\* has (the "not" of the first disjunct lost).
needs_entry_KnownOnly(data, sha256_hex, p) ==
    sha256_hex \in DOMAIN data /\ data[sha256_hex].file_path # p

\* A variant of the write test that holds only for a hash the dict does not
\* have yet, so that the first file visited keeps the entry.
needs_entry_FirstWins(data, sha256_hex, p) ==
    sha256_hex \notin DOMAIN data

\* The test that guards the write of an entry in the walk:
\* not existing_entry_for_sha or its file_path differs from this file's.
needs_entry(data, sha256_hex, p) ==
    sha256_hex \notin DOMAIN data \/ data[sha256_hex].file_path # p

\* A variant of entry_data that carries last_modified over from the entry it
\* replaces, as it does original_filename.
entry_data_StaleMtime(data, sha256_hex, F, p, thumbnail_relative_path) ==
    [filename |-> disk_filename(p),
     original_filename |->
         IF sha256_hex \in DOMAIN data
         THEN data[sha256_hex].original_filename
         ELSE disk_filename(p),
     file_path |-> p,
     last_modified |->
         IF sha256_hex \in DOMAIN data
         THEN data[sha256_hex].last_modified
         ELSE F[p].mtime,
     thumbnail_file |-> thumbnail_relative_path]

\* The dict the walk stores for a file; data[sha256_hex], when there is one,
\* is existing_entry_for_sha.
entry_data(data, sha256_hex, F, p, thumbnail_relative_path) ==
    [filename |-> disk_filename(p),
     original_filename |->
         IF sha256_hex \in DOMAIN data
         THEN data[sha256_hex].original_filename
         ELSE disk_filename(p),
     file_path |-> p,
     last_modified |-> F[p].mtime,
     thumbnail_file |-> thumbnail_relative_path]

\* A variant of the walk's answer to an OSError from getmtime that lets the
\* error leave scan_directory.
getmtime_failed_Raises(S) == [S EXCEPT !.raised = TRUE]

\* The walk's answer to an OSError from getmtime or getctime: the except
\* branch logs it, no entry is written, the loop goes on.
getmtime_failed(S) == S

\* The body of the walk loop for one file.  The call of generate_thumbnail
\* stands outside every try block: its OSError ends the pass.  A file gone
\* at getmtime raises OSError inside the try block: logged, no entry.
WalkFile(S, V, p) ==
    IF S.raised THEN S
    ELSE IF p \notin DOMAIN V.isfile THEN S
    ELSE IF ~is_media_file(p) THEN S
    ELSE
      LET sha256_hex == get_file_sha256(V.hash, p)
          Sh == [S EXCEPT !.hashed = @ \cup {p}]
      IN  IF sha256_hex = NoSha THEN Sh
          ELSE
            LET g == IF is_image(p)
                     THEN generate_thumbnail(Sh, V.thumb, p, sha256_hex)
                     ELSE <<Sh, NoThumb>>
                S1 == g[1]
            IN  IF g[2] = OSErrorRaised THEN [S1 EXCEPT !.raised = TRUE]
                ELSE IF ~needs_entry(S1.data, sha256_hex, p) THEN S1
                ELSE IF p \notin DOMAIN V.meta THEN getmtime_failed(S1)
                ELSE [S1 EXCEPT !.data = DictSet(@, sha256_hex,
                                     entry_data(S1.data, sha256_hex, V.meta, p, g[2])),
                                !.writes = @ + 1]

RECURSIVE WalkAll(_, _, _)
WalkAll(S, V, order) ==
    IF order = <<>> THEN S
    ELSE WalkAll(WalkFile(S, V, Head(order)), V, Tail(order))

\* A variant of the orphan test that looks the hash up and does not compare
\* the entry's thumbnail_file with the path of the file.
is_orphan_ShaOnly(data, t) ==
    LET thumb_sha_from_filename == t.stem
    IN  thumb_sha_from_filename \notin DOMAIN data

\* The orphan test of the cleanup loop for one file of the thumbnail tree.
is_orphan(data, t) ==
    LET thumb_sha_from_filename == t.stem
    IN  ~ (/\ thumb_sha_from_filename \in DOMAIN data
           /\ data[thumb_sha_from_filename].thumbnail_file = t)

\* A variant of the rmdir test without the comparison with the thumbnail
\* directory: every directory left without a file is removed.
rmdir_empty_AnyDir(T, d) ==
    ~ \E t \in T : t.dir = d

\* if root != thumbnail_dir_path and not os.listdir(root): os.rmdir(root).
rmdir_empty(T, d) ==
    /\ d # ROOT
    /\ ~ \E t \in T : t.dir = d

\* The cleanup loop over os.walk(thumbnail_dir_path, topdown=False), which
\* visits the shard directories and the thumbnail directory itself: every
\* orphaned .png is removed, then every directory that passes the rmdir
\* test.  The test for one file reads only data, which the loop does not
\* change, so the files are handled as a set.
CleanupThumbnails(S) ==
    LET orphans == {t \in S.T : t.ext = THUMBNAIL_EXTENSION /\ is_orphan(S.data, t)}
        T1 == S.T \ orphans
        gone == {d \in S.D \cup {ROOT} : rmdir_empty(T1, d)}
    IN  [S EXCEPT !.T = T1,
                  !.deleted = @ \cup orphans,
                  !.D = @ \ gone,
                  !.rmdirs = gone]

\* The file name of a thumbnail, as os.walk yields it.
HashName(h) ==
    CASE h = H1 -> "aa1"
      [] h = H2 -> "aa2"
      [] h = H3 -> "bb3"
      [] OTHER -> "data"

\* A file of the thumbnail directory as a path below the storage root.
WalkPath(t) == [dir |-> THUMBNAIL_DIR_NAME, stem |-> HashName(t.stem), ext |-> t.ext]

\* Everything below the storage root: the media tree F and the files T of
\* the thumbnail directory (readable PNG files of some content).
Tree(F, T) ==
    [p \in DOMAIN F \cup {WalkPath(t) : t \in T} |->
        IF p \in DOMAIN F THEN F[p]
        ELSE [sha |-> H3, mtime |-> 1, readable |-> TRUE, decodable |-> TRUE]]

RECURSIVE SeqOf(_)
SeqOf(set) ==
    IF set = {} THEN <<>>
    ELSE LET x == CHOOSE y \in set : TRUE
         IN  <<x>> \o SeqOf(set \ {x})

\* The directory names on the way from the storage root to a directory.
dir_components(d) ==
    CASE d = "" -> <<>>
      [] d = NestedDir -> <<"sub", THUMBNAIL_DIR_NAME>>
      [] OTHER -> <<d>>

\* No directory on the way to p is named like the thumbnail directory: the
\* test 'THUMBNAIL_DIR_NAME in dirs' is made at every level of the walk.
Outside(p) ==
    \A i \in DOMAIN dir_components(p.dir) :
        dir_components(p.dir)[i] # THUMBNAIL_DIR_NAME

\* A variant of the walk that descends into the thumbnail directory.
dirs_remove_Nothing(entries) == entries

\* if THUMBNAIL_DIR_NAME in dirs: dirs.remove(THUMBNAIL_DIR_NAME): what
\* os.walk yields of the entries below the storage root.
dirs_remove(entries) == SelectSeq(entries, Outside)

\* The files os.walk(storage_dir) hands to the loop body: the media files in
\* the order of the listing, then what is left of the thumbnail directory.
os_walk(order, T) == dirs_remove(order \o SeqOf({WalkPath(t) : t \in T}))

\* The early return of scan_directory when storage_dir is no directory: an
\* empty dict is returned and nothing was touched.
storage_dir_not_found(T, D) == PassState(<<>>, T, D)

\* The validation loop and the walk of scan_directory, up to the cleanup.
before_cleanup(VV, VW, T, D, existing_data, rescan, order) ==
    LET S0 == IF existing_data # <<>> /\ rescan
              THEN ValidateKnown(PassState(existing_data, T, D), VV)
              ELSE PassState(<<>>, T, D)
    IN  WalkAll(S0, VW, order)

\* scan_directory for a storage_dir that is a directory: VV is what the
\* validation loop finds on disk, VW what the walk finds, order the order in
\* which os.walk lists the files.  An exception skips what follows it.
scan_directory_steps(VV, VW, T, D, existing_data, rescan, order) ==
    LET S1 == before_cleanup(VV, VW, T, D, existing_data, rescan, order)
    IN  IF S1.raised THEN S1 ELSE CleanupThumbnails(S1)

\* scan_directory(storage_dir, existing_data, rescan) with nothing else
\* changing the tree F while it runs.
scan_directory(F, T, D, existing_data, rescan, order) ==
    scan_directory_steps(Views(F), Views(F), T, D, existing_data, rescan, order)

----------------------------------------------------------------------------
(* os.walk(storage_dir): top-down, so the files of the storage root come   *)
(* before those of its subdirectory; the order inside one directory is     *)
(* whatever the file system lists.  The listing belongs to the state of    *)
(* the file system: it is any of these orders after a directory entry is   *)
(* added or removed, and stays as it is while none is.                     *)

Perms(S) ==
    {s \in [1..Cardinality(S) -> S] : \A i, j \in 1..Cardinality(S) : s[i] = s[j] => i = j}

FilesIn(F, d) == {p \in DOMAIN F : p.dir = d}

WalkOrders(F) ==
    {a \o b \o c : a \in Perms(FilesIn(F, Dirs[1])),
                   b \in Perms(FilesIn(F, Dirs[2])),
                   c \in Perms(FilesIn(F, NestedDir))}

----------------------------------------------------------------------------
(* Initial state: an empty storage root, nothing cataloged. *)

\* What can start a pass: the initial scan of run_flask_app, a cycle of
\* background_scanner_task, a call of scan_directory by any other caller.
Triggers == {"startup", "timer", "direct"}

\* A file name in the upload directory of the day: base.ext when counter
\* is 0, base_counter.ext otherwise.
UploadName(base, counter) ==
    [dir |-> "uploads", base |-> base, counter |-> counter, ext |-> "jpg"]

\* The request threads of the server.
Handlers == {1, 2}

\* A thread with no request, and the last response it gave.
NoRequest == [pc |-> "idle", base |-> "", content |-> NoSha,
              target |-> UploadName("", 0), status |-> 0,
              file_path |-> UploadName("", 0)]

\* The threads that use the GeoLocator.
Threads == {1, 2, 3}

\* GeoLocator._instance is None, _lock is free, no thread is in a call.
NoGeoLocator == [instance |-> FALSE, initialised |-> FALSE, cities |-> <<>>,
                 loaded |-> FALSE, lock |-> 0,
                 th |-> [t \in Threads |-> [pc |-> "idle", row |-> 0, saw |-> "nothing"]]]

\* No image opened yet.
NoImage == [stage |-> "none", size |-> <<0, 0>>, alpha |-> 0,
            canvas |-> <<0, 0>>, paste |-> <<0, 0>>, pasted |-> <<0, 0>>]

\* The value of a file_path that is None.
NoPath == [dir |-> "", stem |-> "", ext |-> ""]

\* A call of the database module and how it ended.
Call(op, sha, path, ok) ==
    [op |-> op, sha256_hex |-> sha, file_path |-> path, ok |-> ok]

\* No call yet.
NoCall == Call("none", NoSha, NoPath, TRUE)

\* No upload and no pass under way: S is the state of the pass between its
\* walk and its cleanup, row the record put_image has written, swept
\* whether the cleanup has removed the thumbnail the upload made.
NoRace == [pass |-> "idle", rescan |-> FALSE, S |-> PassState(<<>>, {}, {}),
           put |-> "idle", content |-> NoSha, path |-> NoPath,
           thumb |-> NoThumb,
           row |-> [sha256_hex |-> NoSha, file_path |-> NoPath,
                    thumbnail_file |-> NoThumb],
           swept |-> FALSE]

\* The scanner thread before it is started: no configuration read, no
\* connection in thread_local, no rescan attempted.
NoTask == [pc |-> "none", storage_dir |-> FALSE, db_path |-> FALSE,
           rescan_interval |-> 0, connection |-> FALSE, raised |-> FALSE,
           failed |-> FALSE, cycles |-> 0, remaining |-> 0]

\* What can call generate_thumbnail: a pass, or put_image for an upload.
Writers == Triggers \cup {"upload"}

Init ==
    /\ rootExists = TRUE
    /\ fs = <<>>
    /\ listing = <<>>
    /\ thumbs = {}
    /\ shards = {}
    /\ catalog = <<>>
    /\ changes = 0
    /\ clean = FALSE
    /\ lastScan = [mode |-> "none", stable |-> FALSE, race |-> "none",
                   writes |-> 0, created |-> {}, deleted |-> {}]
    /\ pc = [t \in Triggers |-> "idle"]
    /\ marked = {}
    /\ writing = {}
    /\ partial = {}
    /\ seen = "nothing"
    /\ blocked = {}
    /\ db = [rows |-> {}, txn |-> <<>>, call |-> NoCall, replaced |-> FALSE]
    /\ img = NoImage
    /\ up = [files |-> <<>>, rows |-> {}, req |-> [h \in Handlers |-> NoRequest]]
    /\ web = [isdir |-> TRUE, entries |-> <<>>, files |-> {}, status |-> 0,
              asked |-> NoSha]
    /\ bg = [running |-> FALSE, flag |-> 0, settings |-> 0, thread |-> "none",
             rescan_interval |-> 0, remaining |-> 0, status |-> 0]
    /\ geo = NoGeoLocator
    /\ ur = NoRace
    /\ task = NoTask

\* One call of scan_directory; the caller keeps the returned dict.
\* lastScan.stable records that the pass started from what the previous
\* pass left, with nothing edited in between.
\* The caller after a call of scan_directory that ended in state R: it
\* keeps the returned dict, or what it had when the call raised.
Returned(R, rescan, race) ==
    /\ catalog' = IF R.raised THEN catalog ELSE R.data
    /\ thumbs' = R.T
    /\ shards' = R.D
    /\ lastScan' = [mode |-> IF R.raised THEN "aborted"
                             ELSE IF rescan THEN "rescan" ELSE "initial",
                    stable |-> clean,
                    race |-> race,
                    writes |-> R.writes,
                    created |-> R.created,
                    deleted |-> R.deleted]

PassEffect(rescan) ==
    LET R == IF rootExists
             THEN scan_directory(Tree(fs, thumbs), thumbs, shards, catalog,
                                 rescan, os_walk(listing, thumbs))
             ELSE storage_dir_not_found(thumbs, shards)
    IN  /\ Returned(R, rescan, "none")
        /\ clean' = ~R.raised
        /\ UNCHANGED <<rootExists, fs, listing, changes>>

\* A pass that runs alone, from its call to its return.
Pass(rescan) ==
    /\ PassEffect(rescan)
    /\ UNCHANGED conc
    /\ UNCHANGED apart
    /\ UNCHANGED blocked

InitialScan == Pass(FALSE)
Rescan == Pass(TRUE)

----------------------------------------------------------------------------
(* The environment. *)

Counted ==
    /\ changes < MaxChanges
    /\ changes' = changes + 1
    /\ clean' = FALSE
    /\ UNCHANGED <<catalog, lastScan>>
    /\ UNCHANGED conc
    /\ UNCHANGED apart

\* An edit that leaves the shard names free.
Touched ==
    /\ Counted
    /\ UNCHANGED blocked

\* An edit below the storage root, which exists and stays.
Edited ==
    /\ rootExists
    /\ Touched
    /\ UNCHANGED rootExists

\* The listing after an edit of the tree: unchanged when the same paths
\* exist, any order os.walk may produce otherwise.
Relisted ==
    IF DOMAIN fs' = DOMAIN fs
    THEN listing' = listing
    ELSE listing' \in WalkOrders(fs')

\* A file is created or overwritten with content h and modification time t.
WriteFile ==
    \E p \in Paths, h \in Hashes, t \in Times :
        LET old == IF p \in DOMAIN fs THEN fs[p]
                   ELSE [sha |-> h, mtime |-> t, readable |-> TRUE, decodable |-> TRUE]
            new == [old EXCEPT !.sha = h, !.mtime = t]
        IN  /\ p \in DOMAIN fs => fs[p] # new
            /\ fs' = DictSet(fs, p, new)
            /\ Relisted
            /\ Edited
            /\ UNCHANGED <<thumbs, shards>>

RemoveFile ==
    \E p \in DOMAIN fs :
        /\ fs' = DictDel(fs, p)
        /\ Relisted
        /\ Edited
        /\ UNCHANGED <<thumbs, shards>>

\* rename(p, q) onto a free path; t is the modification time afterwards.
RenameFile ==
    \E p \in DOMAIN fs, q \in Paths \ DOMAIN fs, t \in Times :
        /\ fs' = DictSet(DictDel(fs, p), q, [fs[p] EXCEPT !.mtime = t])
        /\ Relisted
        /\ Edited
        /\ UNCHANGED <<thumbs, shards>>

\* The file's read permission is flipped (hashing fails while it is off).
Chmod ==
    \E p \in DOMAIN fs :
        /\ fs' = [fs EXCEPT ![p].readable = ~@]
        /\ Edited
        /\ UNCHANGED <<listing, thumbs, shards>>

\* Thumbnail generation for the file starts or stops failing.
SetDecodable ==
    \E p \in DOMAIN fs :
        /\ fs' = [fs EXCEPT ![p].decodable = ~@]
        /\ Edited
        /\ UNCHANGED <<listing, thumbs, shards>>

\* Files someone may put below the thumbnail directory.
ForeignThumbs ==
    {ShardedThumb(h) : h \in Hashes} \cup {FlatThumb(h) : h \in Hashes}
        \cup {ThumbFile(sha256_prefix(H1), <<"d", "a", "t", "a">>, "json")}

PlantThumb ==
    \E t \in ForeignThumbs \ thumbs :
        /\ thumbs' = thumbs \cup {t}
        /\ shards' = IF t.dir = ROOT THEN shards ELSE shards \cup {t.dir}
        /\ Edited
        /\ UNCHANGED <<fs, listing>>

DropThumb ==
    \E t \in thumbs :
        /\ thumbs' = thumbs \ {t}
        /\ Edited
        /\ UNCHANGED <<fs, listing, shards>>

MakeShard ==
    \E d \in {sha256_prefix(h) : h \in Hashes} \ shards :
        /\ shards' = shards \cup {d}
        /\ Edited
        /\ UNCHANGED <<fs, listing, thumbs>>

\* The storage root is removed with everything below it.
RemoveRoot ==
    /\ rootExists
    /\ rootExists' = FALSE
    /\ fs' = <<>>
    /\ listing' = <<>>
    /\ thumbs' = {}
    /\ shards' = {}
    /\ Touched

\* The storage root is created anew, empty.
MakeRoot ==
    /\ ~rootExists
    /\ rootExists' = TRUE
    /\ Touched
    /\ UNCHANGED <<fs, listing, thumbs, shards>>

Next ==
    \/ InitialScan
    \/ Rescan
    \/ WriteFile
    \/ RemoveFile
    \/ RenameFile
    \/ Chmod
    \/ SetDecodable
    \/ PlantThumb
    \/ DropThumb
    \/ MakeShard
    \/ RemoveRoot
    \/ MakeRoot

Spec == Init /\ [][Next]_vars

----------------------------------------------------------------------------
(* Interleavings.  scan_directory takes no lock and keeps no flag: a pass   *)
(* is entered (ScanBegin) and returns (ScanEnd) with whatever else runs in  *)
(* between.  The reads and writes of a pass other than the thumbnail writes *)
(* split off below are taken at its return.                                 *)

Scanning(t) == pc[t] \in {"full", "rescan"}

\* The writer is inside generate_thumbnail's save().
Saving(w) == \E f \in thumbs \cup partial : <<w, f>> \in writing

\* scan_directory is entered: with existing_data and rescan, the loop over
\* existing_data.items() puts the temporary key into the caller's records.
ScanBegin(t, rescan) ==
    /\ pc[t] = "idle"
    /\ pc' = [pc EXCEPT ![t] = IF rescan THEN "rescan" ELSE "full"]
    /\ marked' = IF rootExists /\ rescan THEN marked \cup DOMAIN catalog
                 ELSE marked
    /\ UNCHANGED <<rootExists, fs, listing, thumbs, shards, catalog, changes,
                   clean, lastScan, writing, partial, seen, blocked, apart>>

\* scan_directory returns: the validation loop, the walk and the cleanup
\* have run, the temporary keys are popped, the caller keeps the result.
ScanEnd(t) ==
    /\ Scanning(t)
    /\ ~Saving(t)
    /\ PassEffect(pc[t] = "rescan")
    /\ pc' = [pc EXCEPT ![t] = IF t = "startup" THEN "done" ELSE "idle"]
    /\ marked' = {}
    /\ partial' = partial \cap thumbs'
    /\ UNCHANGED <<writing, seen, blocked, apart>>

\* run_flask_app: the initial scan, before the scanner thread exists.
StartupScan == ScanBegin("startup", FALSE)

\* background_scanner_task: started after the initial scan has returned,
\* one rescan per cycle, the next after the sleep.
TimerScan ==
    /\ pc["startup"] = "done"
    /\ ScanBegin("timer", TRUE)

\* Any other call of scan_directory on the same storage root.
DirectScan == \E rescan \in BOOLEAN : ScanBegin("direct", rescan)

ScanReturn == \E t \in Triggers : ScanEnd(t)

\* generate_thumbnail up to the start of final_thumb.save(): the target
\* does not exist, the source decodes, the target is opened for writing.
GenOpen ==
    \E w \in Writers, p \in DOMAIN fs :
        LET f == ShardedThumb(fs[p].sha)
        IN  /\ w \in Triggers => Scanning(w)
            /\ ~Saving(w)
            /\ rootExists
            /\ is_image(p) /\ fs[p].readable /\ fs[p].decodable
            /\ f \notin thumbs
            /\ thumbs' = thumbs \cup {f}
            /\ shards' = shards \cup {f.dir}
            /\ writing' = writing \cup {<<w, f>>}
            /\ partial' = partial \cup {f}
            /\ UNCHANGED <<rootExists, fs, listing, catalog, changes, clean,
                           lastScan, pc, marked, seen, blocked, apart>>

\* save() returns: the content of the target is complete, unless another
\* writer still has the same path open.
GenClose ==
    \E e \in writing :
        /\ writing' = writing \ {e}
        /\ partial' = IF \E o \in writing \ {e} : o[2] = e[2] THEN partial
                      ELSE partial \ {e[2]}
        /\ UNCHANGED <<rootExists, fs, listing, thumbs, shards, catalog,
                       changes, clean, lastScan, pc, marked, seen, blocked, apart>>

\* save() raises part-way: the except branches log and return None.  What
\* is left at the target path is up to the imaging library: nothing, or the
\* bytes written so far.
GenFail ==
    \E e \in writing, left \in BOOLEAN :
        /\ writing' = writing \ {e}
        /\ IF left
           THEN /\ UNCHANGED <<thumbs, partial>>
                /\ seen' = IF e[2] \in thumbs THEN "leftover" ELSE seen
           ELSE /\ thumbs' = thumbs \ {e[2]}
                /\ partial' = partial \ {e[2]}
                /\ seen' = seen
        /\ UNCHANGED <<rootExists, fs, listing, shards, catalog, changes,
                       clean, lastScan, pc, marked, blocked, apart>>

\* generate_thumbnail of another caller for the same hash: os.path.exists
\* is true for the target, the path is returned as the thumbnail.
GenExisting ==
    \E w \in Writers, p \in DOMAIN fs :
        LET f == ShardedThumb(fs[p].sha)
        IN  /\ w \in Triggers => Scanning(w)
            /\ ~Saving(w)
            /\ is_image(p)
            /\ f \in thumbs
            /\ seen' = IF f \in partial THEN "trusted_partial" ELSE "trusted"
            /\ UNCHANGED <<rootExists, fs, listing, thumbs, shards, catalog,
                           changes, clean, lastScan, pc, marked, writing,
                           partial, blocked, apart>>

\* GET /thumbnail/<sha>: the record names a thumbnail, the file is sent.
get_thumbnail ==
    \E h \in DOMAIN catalog :
        LET f == catalog[h].thumbnail_file
        IN  /\ f # NoThumb
            /\ seen' = IF f \notin thumbs THEN "not_found"
                       ELSE IF f \in partial THEN "served_partial"
                       ELSE "served"
            /\ UNCHANGED <<rootExists, fs, listing, thumbs, shards, catalog,
                           changes, clean, lastScan, pc, marked, writing,
                           partial, blocked, apart>>

\* A reader of the catalog dict looks at one record.
ReadRecord ==
    \E h \in DOMAIN catalog :
        /\ seen' = IF h \in marked THEN "temp_key" ELSE "record"
        /\ UNCHANGED <<rootExists, fs, listing, thumbs, shards, catalog,
                       changes, clean, lastScan, pc, marked, writing, partial, blocked, apart>>

\* An upload or an edit stores an image below the storage root.
StoreImage ==
    \E p \in {PathA, PathB}, h \in {H1, H2} :
        /\ p \notin DOMAIN fs
        /\ fs' = DictSet(fs, p, [sha |-> h, mtime |-> 1, readable |-> TRUE,
                                 decodable |-> TRUE])
        /\ Relisted
        /\ Edited
        /\ UNCHANGED <<thumbs, shards>>

NextConcurrent ==
    \/ StartupScan
    \/ TimerScan
    \/ DirectScan
    \/ ScanReturn
    \/ GenOpen
    \/ GenClose
    \/ GenFail
    \/ GenExisting
    \/ get_thumbnail
    \/ ReadRecord
    \/ StoreImage

SpecConcurrent == Init /\ [][NextConcurrent]_vars

----------------------------------------------------------------------------
(* Faults.  A shard name of the thumbnail directory can be taken by a       *)
(* regular file, so that os.makedirs fails for it, and a file can be        *)
(* deleted by someone else between two steps of the pass that handles it.   *)

\* A regular file is put where a shard directory would go.
BlockShard ==
    \E d \in {sha256_prefix(h) : h \in Hashes} \ (shards \cup blocked) :
        /\ rootExists
        /\ blocked' = blocked \cup {d}
        /\ Counted
        /\ UNCHANGED <<rootExists, fs, listing, thumbs, shards>>

\* The steps before which a file can vanish, in the validation loop
\* (getmtime, hashing, Image.open) and in the walk (isfile, hashing,
\* Image.open, getmtime).
RacePoints == {"v_meta", "v_hash", "v_thumb",
               "w_isfile", "w_hash", "w_thumb", "w_meta"}

\* What the validation loop finds when file p vanishes before step at.
ValidationViews(F, p, at) ==
    LET G == DictDel(F, p)
    IN  CASE at = "v_meta"  -> [isfile |-> F, meta |-> G, hash |-> G, thumb |-> G]
          [] at = "v_hash"  -> [isfile |-> F, meta |-> F, hash |-> G, thumb |-> G]
          [] at = "v_thumb" -> [isfile |-> F, meta |-> F, hash |-> F, thumb |-> G]
          [] OTHER -> Views(F)

\* What the walk finds when file p vanishes before step at.
WalkViews(F, p, at) ==
    LET G == DictDel(F, p)
    IN  CASE at = "w_isfile" -> Views(G)
          [] at = "w_hash"   -> [isfile |-> F, hash |-> G, thumb |-> G, meta |-> G]
          [] at = "w_thumb"  -> [isfile |-> F, hash |-> F, thumb |-> G, meta |-> G]
          [] at = "w_meta"   -> [isfile |-> F, hash |-> F, thumb |-> F, meta |-> G]
          [] OTHER -> Views(G)

\* order without the path p.
RECURSIVE Unlisted(_, _)
Unlisted(order, p) ==
    IF order = <<>> THEN <<>>
    ELSE IF Head(order) = p THEN Unlisted(Tail(order), p)
    ELSE <<Head(order)>> \o Unlisted(Tail(order), p)

\* The files os.walk lists: a file that vanished during the validation loop
\* is not listed any more.
WalkListing(order, p, at) ==
    IF at \in {"v_meta", "v_hash", "v_thumb"} THEN Unlisted(order, p) ELSE order

\* scan_directory with file p deleted by someone else before step at.
scan_directory_racing(F, T, D, existing_data, rescan, order, p, at) ==
    scan_directory_steps(ValidationViews(F, p, at), WalkViews(F, p, at), T, D,
                         existing_data, rescan, WalkListing(order, p, at))

\* A pass during which a file is deleted.
RacingPass ==
    \E rescan \in BOOLEAN, p \in DOMAIN fs, at \in RacePoints :
        LET R == scan_directory_racing(fs, thumbs, shards, catalog, rescan,
                                       listing, p, at)
        IN  /\ rootExists
            /\ changes < MaxChanges
            /\ changes' = changes + 1
            /\ Returned(R, rescan, at)
            /\ clean' = FALSE
            /\ fs' = DictDel(fs, p)
            /\ listing' = Unlisted(listing, p)
            /\ UNCHANGED rootExists
            /\ UNCHANGED conc
            /\ UNCHANGED apart
            /\ UNCHANGED blocked

NextFaults ==
    \/ InitialScan
    \/ Rescan
    \/ RacingPass
    \/ WriteFile
    \/ SetDecodable
    \/ BlockShard

SpecFaults == Init /\ [][NextFaults]_vars

\* The faults without the blocked shard names: passes, edits and races.
NextRaces ==
    \/ InitialScan
    \/ Rescan
    \/ RacingPass
    \/ WriteFile
    \/ SetDecodable

SpecRaces == Init /\ [][NextRaces]_vars

----------------------------------------------------------------------------
(* A storage root that also holds files that are no media. *)

StoreOther ==
    \E p \in OtherPaths \ DOMAIN fs :
        /\ fs' = DictSet(fs, p, [sha |-> H3, mtime |-> 1, readable |-> TRUE,
                                 decodable |-> FALSE])
        /\ Relisted
        /\ Edited
        /\ UNCHANGED <<thumbs, shards>>

NextMembership ==
    \/ InitialScan
    \/ Rescan
    \/ WriteFile
    \/ StoreOther
    \/ PlantThumb

SpecMembership == Init /\ [][NextMembership]_vars

----------------------------------------------------------------------------
(* Properties of scan_directory.                                           *)

\* The readable media files: those the walk hashes and ingests.
Ingestible(F) == {p \in DOMAIN F : is_media_file(p) /\ F[p].readable}

\* The positions of the listing that hold a readable media file of content h.
Copies(h) ==
    {i \in 1..Len(listing) : listing[i] \in Ingestible(fs) /\ fs[listing[i]].sha = h}

FirstOf(I) == CHOOSE i \in I : \A j \in I : i <= j
LastOf(I) == CHOOSE i \in I : \A j \in I : j <= i

\* The tracked file of entry h was renamed from its recorded path to q: the
\* recorded path is gone, q is the one file with content h, it is readable
\* and its modification time is not the recorded one.
RenamedTo(h, q) ==
    /\ h \in DOMAIN catalog
    /\ catalog[h].file_path \notin DOMAIN fs
    /\ q \in Ingestible(fs)
    /\ \A p \in DOMAIN fs : fs[p].sha = h <=> p = q
    /\ fs[q].mtime # catalog[h].last_modified

\* C1: idempotence on state.  A rescan that is handed the catalog the
\* previous pass returned, with no edit of the file system or of the
\* thumbnail directory in between, returns an equal catalog and leaves the
\* thumbnail files and shard directories as they were.
C1_RescanIdempotent ==
    [][(clean /\ Rescan) =>
          (catalog' = catalog /\ thumbs' = thumbs /\ shards' = shards)]_vars

\* A rescan has run right after another pass, over a tree with a cataloged
\* image whose thumbnail exists.
C1_Witness ==
    /\ clean
    /\ lastScan.mode = "rescan"
    /\ lastScan.stable
    /\ \E h \in DOMAIN catalog : catalog[h].thumbnail_file \in thumbs

\* C2: a rescan over an unchanged file system, started from the catalog the
\* previous pass produced, writes no catalog record (none created, replaced,
\* updated or deleted) and creates and deletes no thumbnail file.
C2_RescanWritesNothing ==
    (lastScan.mode = "rescan" /\ lastScan.stable) =>
        /\ lastScan.writes = 0
        /\ lastScan.created = {}
        /\ lastScan.deleted = {}

C4_ThumbnailConsistent ==
    clean =>
        \A h \in DOMAIN catalog :
            LET r == catalog[h]
            IN  /\ r.thumbnail_file # NoThumb =>
                      (r.thumbnail_file \in thumbs /\ is_image(r.file_path))
                /\ ~is_image(r.file_path) =>
                      /\ r.thumbnail_file = NoThumb
                      /\ ShardedThumb(h) \notin thumbs
                      /\ FlatThumb(h) \notin thumbs

\* C5: path uniqueness.  In the catalog a pass returns, no two records have
\* the same file_path, whatever the prior catalog and whatever was changed
\* between the passes (content, modification time, both or neither).
C5_PathUnique ==
    \A h1, h2 \in DOMAIN catalog :
        h1 # h2 => catalog[h1].file_path # catalog[h2].file_path

\* C6: content addressing.  The catalog is keyed by content hash, so it
\* holds at most one record per hash; after a pass it holds a record for the
\* hash of every readable media file, and after an initial scan its keys are
\* exactly those hashes: files with identical content at different paths
\* share one record.
C6_OneRecordPerHash ==
    clean =>
        /\ \A p \in Ingestible(fs) : fs[p].sha \in DOMAIN catalog
        /\ lastScan.mode = "initial" =>
              DOMAIN catalog = {fs[p].sha : p \in Ingestible(fs)}

\* A pass has cataloged two files of identical content at different paths
\* next to a file of other content.
C6_Witness ==
    /\ clean
    /\ \E p, q \in Ingestible(fs) :
          /\ p # q
          /\ fs[p].sha = fs[q].sha
          /\ fs[p].sha \in DOMAIN catalog
    /\ Cardinality(DOMAIN catalog) = 2

C8_OrderIndependent ==
    \A rescan \in BOOLEAN :
        \A o1, o2 \in WalkOrders(fs) :
            LET R1 == scan_directory(fs, thumbs, shards, catalog, rescan, o1)
                R2 == scan_directory(fs, thumbs, shards, catalog, rescan, o2)
            IN  R1.data = R2.data /\ R1.T = R2.T /\ R1.D = R2.D

\* C9: rename detection.  When a tracked image was renamed and a rescan
\* runs, the record of its hash is kept with file_path set to the new path,
\* and its thumbnail file is neither deleted nor written during the pass.
C9_RenameKeepsThumbnail ==
    [][\A h \in DOMAIN catalog : \A q \in DOMAIN fs :
          (/\ RenamedTo(h, q)
           /\ is_image(q)
           /\ catalog[h].thumbnail_file # NoThumb
           /\ catalog[h].thumbnail_file \in thumbs
           /\ Rescan) =>
              /\ h \in DOMAIN catalog'
              /\ catalog'[h].file_path = q
              /\ catalog'[h].thumbnail_file = catalog[h].thumbnail_file
              /\ catalog[h].thumbnail_file \in thumbs'
              /\ catalog[h].thumbnail_file \notin lastScan'.deleted
              /\ catalog[h].thumbnail_file \notin lastScan'.created]_vars

\* C10: original_filename is preserved across a rename.  After the rescan
\* that follows the renaming of a tracked file, the record of its hash has
\* the original_filename it had before.
C10_RenameKeepsOriginalFilename ==
    [][\A h \in DOMAIN catalog : \A q \in DOMAIN fs :
          (RenamedTo(h, q) /\ Rescan) =>
              /\ h \in DOMAIN catalog'
              /\ catalog'[h].original_filename = catalog[h].original_filename]_vars

\* The file of entry k is as the entry records it: same path, same content,
\* same modification time.
Unchanged(k) ==
    /\ catalog[k].file_path \in DOMAIN fs
    /\ fs[catalog[k].file_path].sha = k
    /\ fs[catalog[k].file_path].mtime = catalog[k].last_modified

\* Apart from entry h and path p nothing differs from what the catalog
\* records: every other entry's file is unchanged, and every other readable
\* media file is the file its hash's entry names.
OthersUnchanged(h, p) ==
    /\ \A k \in DOMAIN catalog \ {h} :
          Unchanged(k) /\ catalog[k].file_path # p
    /\ \A q \in Ingestible(fs) \ {p} :
          /\ fs[q].sha \in DOMAIN catalog \ {h}
          /\ catalog[fs[q].sha].file_path = q

\* The bytes at the tracked path p of entry h were replaced: p is readable,
\* has another hash and another modification time, and no file has the old
\* content any more.
ContentReplaced(h, p) ==
    /\ h \in DOMAIN catalog
    /\ catalog[h].file_path = p
    /\ p \in Ingestible(fs)
    /\ fs[p].sha # h
    /\ fs[p].mtime # catalog[h].last_modified
    /\ \A q \in DOMAIN fs : fs[q].sha # h
    /\ OthersUnchanged(h, p)

\* What C11 promises of the rescan for entry h at path p.
ContentChangeHandled(h, p) ==
    LET n == fs[p].sha
    IN  /\ h \notin DOMAIN catalog'
        /\ ShardedThumb(h) \notin thumbs'
        /\ FlatThumb(h) \notin thumbs'
        /\ n \in DOMAIN catalog'
        /\ catalog'[n].file_path = p
        /\ catalog'[n].last_modified = fs[p].mtime
        /\ is_image(p) =>
              /\ catalog'[n].thumbnail_file = ShardedThumb(n)
              /\ ShardedThumb(n) \in thumbs'
        /\ Cardinality(DOMAIN catalog') = Cardinality(DOMAIN catalog)

FileDeleted(h) ==
    /\ h \in DOMAIN catalog
    /\ catalog[h].file_path \notin DOMAIN fs
    /\ \A q \in DOMAIN fs : fs[q].sha # h
    /\ OthersUnchanged(h, catalog[h].file_path)

\* After the rescan entry h and its thumbnail are gone and every other
\* record is as it was.
DeletionSwept(h) ==
    /\ h \notin DOMAIN catalog'
    /\ ShardedThumb(h) \notin thumbs'
    /\ FlatThumb(h) \notin thumbs'
    /\ DOMAIN catalog' = DOMAIN catalog \ {h}
    /\ \A k \in DOMAIN catalog' : catalog'[k] = catalog[k]

\* C12, as stated: when a tracked file was deleted (no other file has its
\* content) and a rescan runs, the hash has no record, its thumbnail file
\* does not exist, its shard directory is removed if no remaining thumbnail
\* uses it, and all other records are unchanged.
C12_Deletion ==
    [][\A h \in DOMAIN catalog :
          (FileDeleted(h) /\ Rescan) =>
              /\ DeletionSwept(h)
              /\ (\A t \in thumbs' : t.ext = THUMBNAIL_EXTENSION
                        => t.dir # sha256_prefix(h))
                    => sha256_prefix(h) \notin shards']_vars

\* C12, amended: the same, with the shard directory removed if no file at
\* all is left in it; a shard that still holds a file that is not a
\* thumbnail stays.
C12_DeletionEmptyShard ==
    [][\A h \in DOMAIN catalog :
          (FileDeleted(h) /\ Rescan) =>
              /\ DeletionSwept(h)
              /\ (\A t \in thumbs' : t.dir # sha256_prefix(h))
                    => sha256_prefix(h) \notin shards']_vars

\* A rescan has dropped the record, the thumbnail and the shard directory
\* of the only file, which was deleted after the previous pass.
C12_Witness ==
    /\ clean
    /\ lastScan.mode = "rescan"
    /\ changes = 2
    /\ fs = <<>>
    /\ catalog = <<>>
    /\ lastScan.writes = 1
    /\ \E h \in Hashes : lastScan.deleted = {ShardedThumb(h)}
    /\ shards = {}

\* Only the modification time of the tracked image of entry h changed: the
\* file at the recorded path is readable, has the recorded content and
\* another modification time, the entry's thumbnail exists, and nothing else
\* differs from what the catalog records.
TouchedOnly(h) ==
    /\ h \in DOMAIN catalog
    /\ catalog[h].file_path \in Ingestible(fs)
    /\ is_image(catalog[h].file_path)
    /\ fs[catalog[h].file_path].sha = h
    /\ fs[catalog[h].file_path].mtime # catalog[h].last_modified
    /\ catalog[h].thumbnail_file # NoThumb
    /\ catalog[h].thumbnail_file \in thumbs
    /\ OthersUnchanged(h, catalog[h].file_path)

\* C13: timestamp-only touch.  When only the modification time of a tracked
\* image changed and its record has a thumbnail, a rescan keeps the record
\* under the same hash with last_modified set to the new time and
\* thumbnail_file as it was, neither deletes nor writes the thumbnail file,
\* and leaves the number of records unchanged.
C13_TimestampTouch ==
    [][\A h \in DOMAIN catalog :
          (TouchedOnly(h) /\ Rescan) =>
              /\ h \in DOMAIN catalog'
              /\ catalog'[h] =
                    [catalog[h] EXCEPT
                        !.last_modified = fs[catalog[h].file_path].mtime]
              /\ catalog[h].thumbnail_file \in thumbs'
              /\ catalog[h].thumbnail_file \notin lastScan'.created
              /\ catalog[h].thumbnail_file \notin lastScan'.deleted
              /\ DOMAIN catalog' = DOMAIN catalog]_vars

\* A rescan has done nothing but update last_modified of the record of the
\* only file, an image with a thumbnail that was touched after the previous
\* pass.
C13_Witness ==
    /\ clean
    /\ lastScan.mode = "rescan"
    /\ changes = 2
    /\ lastScan.writes = 1
    /\ lastScan.created = {}
    /\ lastScan.deleted = {}
    /\ \E p \in DOMAIN fs :
          /\ DOMAIN fs = {p}
          /\ is_image(p)
          /\ DOMAIN catalog = {fs[p].sha}
          /\ catalog[fs[p].sha].last_modified = fs[p].mtime
          /\ catalog[fs[p].sha].thumbnail_file \in thumbs

\* The file of entry h exists with the recorded modification time.
ConfirmedClean(h) ==
    /\ catalog[h].file_path \in DOMAIN fs
    /\ fs[catalog[h].file_path].mtime = catalog[h].last_modified

\* C14: confirmed-clean fast path.  In a rescan, the file of a record that
\* exists with the recorded modification time is not hashed and is not
\* handed to thumbnail generation in any phase of the pass.
C14_CleanFileUntouched ==
    [][\A h \in DOMAIN catalog :
          (ConfirmedClean(h) /\ Rescan) =>
              LET R == scan_directory(fs, thumbs, shards, catalog, TRUE, listing)
              IN  /\ catalog[h].file_path \notin R.hashed
                  /\ catalog[h].file_path \notin R.requested]_vars

\* Entry h records an image without a thumbnail reference (generation
\* failed in an earlier pass) and generation for its file would now succeed:
\* the file is at the recorded path with the recorded content, readable and
\* decodable.
RetryPossible(h) ==
    /\ h \in DOMAIN catalog
    /\ catalog[h].thumbnail_file = NoThumb
    /\ catalog[h].file_path \in Ingestible(fs)
    /\ is_image(catalog[h].file_path)
    /\ fs[catalog[h].file_path].sha = h
    /\ fs[catalog[h].file_path].decodable

\* C15: thumbnail retry.  If a record of an image was stored without a
\* thumbnail reference because generation failed, then after a rescan in
\* which generation for the file succeeds the record's thumbnail_file is the
\* sharded path and that file exists, whether or not the file's
\* modification time changed in between.
C15_ThumbnailRetried ==
    [][\A h \in DOMAIN catalog :
          (RetryPossible(h) /\ Rescan) =>
              /\ h \in DOMAIN catalog'
              /\ catalog'[h].thumbnail_file = ShardedThumb(h)
              /\ ShardedThumb(h) \in thumbs']_vars

\* C19: missing storage root.  When the storage root is no directory at the
\* start of a pass, the pass aborts and mutates nothing: no thumbnail is
\* created or deleted, and the catalog the caller holds is neither emptied
\* nor changed.
C19_MissingRootKeepsCatalog ==
    [][(~rootExists /\ (InitialScan \/ Rescan)) =>
          /\ catalog' = catalog
          /\ thumbs' = thumbs
          /\ shards' = shards
          /\ lastScan'.created = {}
          /\ lastScan'.deleted = {}]_vars

\* The media files the walk fails to hash.
Unhashable(F) == {p \in DOMAIN F : is_media_file(p) /\ ~F[p].readable}

\* No other readable media file has the content of q.
Alone(q) == \A r \in Ingestible(fs) \ {q} : fs[r].sha # fs[q].sha

\* C20: per-file failure isolation.  When hashing fails for a media file
\* during the walk, the pass still completes; the returned catalog has no
\* record for that file, no thumbnail file for its hash is left in the store
\* (unless a readable file has the same content), and every readable media
\* file is cataloged, an image that can be decoded and shares its content
\* with no other file with its thumbnail.
C20_FailureIsolated ==
    (clean /\ lastScan.mode # "none") =>
        \A p \in Unhashable(fs) :
            /\ \A k \in DOMAIN catalog : catalog[k].file_path # p
            /\ (\A q \in Ingestible(fs) : fs[q].sha # fs[p].sha) =>
                  /\ ShardedThumb(fs[p].sha) \notin thumbs
                  /\ FlatThumb(fs[p].sha) \notin thumbs
            /\ \A q \in Ingestible(fs) :
                  /\ fs[q].sha \in DOMAIN catalog
                  /\ (is_image(q) /\ fs[q].decodable /\ Alone(q)) =>
                        /\ catalog[fs[q].sha].thumbnail_file = ShardedThumb(fs[q].sha)
                        /\ ShardedThumb(fs[q].sha) \in thumbs

\* C16: reentrancy.  At most one pass over the storage root executes at
\* any time: whatever the interleaving of the startup scan, the timer cycles
\* and direct calls of scan_directory, a trigger that arrives while a pass
\* is running does not run together with it.
C16_OnePassAtATime ==
    Cardinality({t \in Triggers : Scanning(t)}) <= 1

\* C17: atomic thumbnail publication.  No get_thumbnail and no other call of
\* generate_thumbnail for the same hash finds the target path existing with
\* incomplete content, and a write that fails part-way leaves no file at
\* the target path.
C17_ThumbnailPublishedWhole ==
    seen \notin {"served_partial", "trusted_partial", "leftover"}

GenerationFails(p) ==
    /\ is_image(p)
    /\ ShardedThumb(fs[p].sha) \notin thumbs
    /\ ~fs[p].decodable \/ sha256_prefix(fs[p].sha) \in blocked

\* C21: a thumbnail generation failure is never fatal.  Whatever image
\* generate_thumbnail fails for (source that does not decode, shard
\* directory that cannot be created), no exception leaves it, the pass is
\* not aborted, every readable media file is cataloged, and the record of
\* a file whose generation failed has thumbnail_file unset.
C21_ThumbnailFailureNotFatal ==
    [][(InitialScan \/ Rescan) =>
          /\ lastScan'.mode # "aborted"
          /\ \A p \in Ingestible(fs) :
                /\ fs[p].sha \in DOMAIN catalog'
                /\ (GenerationFails(p) /\ Alone(p)) =>
                       catalog'[fs[p].sha].thumbnail_file = NoThumb]_vars

\* The record of hash k in a dict, as a set: empty when there is none.
RecordOf(data, k) == IF k \in DOMAIN data THEN {data[k]} ELSE {}

\* The step is a pass (full or rescan) during which p vanished before at.
RacedOn(rescan, p, at) ==
    /\ fs' = DictDel(fs, p)
    /\ lastScan'.race = at
    /\ lastScan'.mode \in {"aborted", IF rescan THEN "rescan" ELSE "initial"}
    /\ RacingPass

\* The hashes whose record is the vanished file's: its content, and
\* whatever hash the catalog holds for its path.
TiedTo(p) ==
    {fs[p].sha} \cup {k \in DOMAIN catalog : catalog[k].file_path = p}

\* C22: file system races are not fatal.  When a file is deleted by someone
\* else between two steps of the pass that handles it, the pass returns
\* without raising; the vanished file is skipped or loses its record (no
\* record is created for it); and the record of every other hash is what
\* the pass would have returned with the file present throughout or with
\* the file gone from the start.
C22_RaceNotFatal ==
    [][\A rescan \in BOOLEAN, p \in DOMAIN fs, at \in RacePoints :
          RacedOn(rescan, p, at) =>
              LET with == scan_directory(fs, thumbs, shards, catalog, rescan,
                                         listing).data
                  without == scan_directory(DictDel(fs, p), thumbs, shards,
                                            catalog, rescan,
                                            Unlisted(listing, p)).data
              IN  /\ lastScan'.mode # "aborted"
                  /\ \A k \in DOMAIN catalog' :
                        catalog'[k].file_path = p =>
                            k \in DOMAIN catalog /\ catalog[k].file_path = p
                  /\ \A k \in Hashes \ TiedTo(p) :
                        RecordOf(catalog', k) \in
                            {RecordOf(with, k), RecordOf(without, k)}]_vars

\* A rescan during which a file vanished just before getmtime in the walk:
\* its thumbnail was written and then removed as an orphan, and the
\* catalog still holds a record.
C22_Witness ==
    /\ lastScan.race = "w_meta"
    /\ lastScan.mode = "rescan"
    /\ lastScan.created \cap lastScan.deleted # {}
    /\ catalog # <<>>

\* C23: generate_thumbnail(source, thumbnail_dir, hash) returns the
\* relative path hash[:2]/hash.png.  When that file exists already the call
\* writes nothing and returns the same path, so a second call for the same
\* hash returns what the first returned and leaves the directory as the
\* first left it.
C23_GenerateIdempotent ==
    \A p \in DOMAIN fs, h \in Hashes :
        LET S == PassState(catalog, thumbs, shards)
            target == ThumbFile(SubSeq(h, 1, 2), h, "png")
            first == generate_thumbnail(S, fs, p, h)
            second == generate_thumbnail(first[1], fs, p, h)
        IN  /\ first[2] \in {target, NoThumb}
            /\ fs[p].decodable => first[2] = target
            /\ target \in thumbs =>
                  /\ first[2] = target
                  /\ first[1].T = thumbs
                  /\ first[1].created = {}
            /\ first[2] = target =>
                  /\ second[2] = target
                  /\ second[1].T = first[1].T
                  /\ second[1].created = first[1].created

\* A rescan found the thumbnail of an image in place, asked for it again
\* and wrote no thumbnail.
C23_Witness ==
    /\ lastScan.mode = "rescan"
    /\ clean
    /\ lastScan.created = {}
    /\ \E p \in DOMAIN fs :
          /\ is_image(p) /\ fs[p].readable
          /\ ShardedThumb(fs[p].sha) \in thumbs
          /\ fs[p].sha \in DOMAIN catalog
          /\ catalog[fs[p].sha].thumbnail_file = ShardedThumb(fs[p].sha)

\* C24: catalog membership.  The catalog returned by any pass holds
\* records only for files whose guessed MIME type is image/* or video/*
\* (text files, files with an unknown extension and files without one never
\* appear), and no record's file_path lies in the thumbnail directory.
C24_OnlyMediaCataloged ==
    \A k \in DOMAIN catalog :
        LET mime_type == guess_type(catalog[k].file_path)
        IN  /\ mime_type # <<>>
            /\ mime_type[1] \in {"image", "video"}
            /\ catalog[k].file_path \notin OtherPaths
            /\ catalog[k].file_path.dir # THUMBNAIL_DIR_NAME

\* A pass has returned records for a tree that holds a file that is no
\* media next to a media file, with PNG files in the thumbnail directory.
C24_Witness ==
    /\ clean
    /\ lastScan.mode \in {"initial", "rescan"}
    /\ DOMAIN fs \cap OtherPaths # {}
    /\ catalog # <<>>
    /\ \E t \in thumbs : t.ext = THUMBNAIL_EXTENSION

\* ------------------------------------------------------------------
\* The media_files table (database.py).  A row is kept with its key
\* columns and one plain column; db.rows is the committed table, db.txn
\* the add_or_update_media_file call that has run its SELECT and not yet
\* its transaction, db.call the last call and how it ended, db.replaced
\* whether an add has found its path held by the row of another sha.
\* ------------------------------------------------------------------

\* The rows a call can pass: sha256_hex, file_path, last_modified.
Rows == [sha256_hex : Hashes, file_path : Paths \cup {NoPath}, last_modified : Times]

\* CREATE TABLE media_files: sha256_hex is the PRIMARY KEY, file_path is
\* NOT NoPath UNIQUE.  The constraints a table satisfies.
primary_key(T) == \A r1, r2 \in T : r1.sha256_hex = r2.sha256_hex => r1 = r2

unique_file_path(T) == \A r1, r2 \in T : r1.file_path = r2.file_path => r1 = r2

not_null(T) == \A r \in T : r.file_path # NoPath

\* SELECT sha256_hex FROM media_files WHERE file_path = ? AND sha256_hex != ?
existing_sha_for_path(T, row) ==
    {r.sha256_hex : r \in {q \in T : /\ q.file_path = row.file_path
                                     /\ q.sha256_hex # row.sha256_hex}}

\* DELETE FROM media_files WHERE sha256_hex = ?
delete_sha(T, shas) == {r \in T : r.sha256_hex \notin shas}

\* INSERT OR REPLACE as an INSERT that keeps the rows it conflicts with.
insert_or_replace_KeepsRows(T, row) == T \cup {row}

\* INSERT OR REPLACE: the rows that conflict with the new one on the
\* primary key or on the unique column are removed, then it is inserted.
insert_or_replace(T, row) ==
    {r \in T : /\ r.sha256_hex # row.sha256_hex
               /\ r.file_path # row.file_path} \cup {row}

\* UPDATE media_files SET file_path = ? WHERE sha256_hex = ?, unchecked.
update_set(T, sha, path) ==
    {IF r.sha256_hex = sha THEN [r EXCEPT !.file_path = path] ELSE r : r \in T}

\* The UPDATE without the constraints of the table.
update_statement_Unchecked(T, sha, path) ==
    [rows |-> update_set(T, sha, path), ok |-> \E r \in T : r.sha256_hex = sha]

\* The UPDATE under the constraints: a statement that would break one
\* raises sqlite3.IntegrityError, the transaction is rolled back and the
\* call returns False; with no such row it changes nothing and returns
\* False.
update_statement(T, sha, path) ==
    LET U == update_set(T, sha, path)
    IN  IF unique_file_path(U) /\ not_null(U)
        THEN [rows |-> U, ok |-> \E r \in T : r.sha256_hex = sha]
        ELSE [rows |-> T, ok |-> FALSE]

\* add_or_update_media_file with a required field that is None: ValueError
\* before anything is executed.
AddInvalid ==
    \E row \in Rows :
        /\ row.file_path = NoPath
        /\ db' = [db EXCEPT !.call = Call("add", row.sha256_hex, NoPath, FALSE)]
        /\ UNCHANGED BesidesDb

\* add_or_update_media_file up to its SELECT, which runs before the
\* first statement that opens the transaction.
AddSelect ==
    \E row \in Rows :
        /\ db.txn = <<>>
        /\ row.file_path # NoPath
        /\ db' = [db EXCEPT !.txn = [row |-> row,
                                     existing |-> existing_sha_for_path(db.rows, row)]]
        /\ UNCHANGED BesidesDb

\* The transaction of add_or_update_media_file: the DELETE of the row
\* found by the SELECT when there was one, the INSERT OR REPLACE, the
\* commit on leaving "with conn".
AddCommit ==
    /\ db.txn # <<>>
    /\ LET row == db.txn.row
       IN  db' = [rows |-> insert_or_replace(delete_sha(db.rows, db.txn.existing), row),
                  txn |-> <<>>,
                  call |-> Call("add", row.sha256_hex, row.file_path, TRUE),
                  replaced |-> \/ db.replaced
                               \/ existing_sha_for_path(db.rows, row) # {}]
    /\ UNCHANGED BesidesDb

\* The transaction raises sqlite3.Error: "with conn" rolls it back and the
\* error is raised again.
AddRollback ==
    /\ db.txn # <<>>
    /\ db' = [db EXCEPT !.txn = <<>>,
                        !.call = Call("add", db.txn.row.sha256_hex,
                                      db.txn.row.file_path, FALSE)]
    /\ UNCHANGED BesidesDb

\* update_media_file_fields(sha, {"file_path": path}).
update_media_file_fields ==
    \E sha \in Hashes, path \in Paths \cup {NoPath} :
        LET u == update_statement(db.rows, sha, path)
        IN  /\ db' = [db EXCEPT !.rows = u.rows,
                                !.call = Call("update", sha, path, u.ok)]
            /\ UNCHANGED BesidesDb

\* delete_media_file_by_sha(sha): True when a row was deleted.
delete_media_file_by_sha ==
    \E sha \in Hashes :
        /\ db' = [db EXCEPT !.rows = delete_sha(db.rows, {sha}),
                            !.call = Call("delete_sha", sha, NoPath,
                                          \E r \in db.rows : r.sha256_hex = sha)]
        /\ UNCHANGED BesidesDb

\* delete_media_file_by_path(path): True when a row was deleted.
delete_media_file_by_path ==
    \E path \in Paths :
        /\ db' = [db EXCEPT !.rows = {r \in db.rows : r.file_path # path},
                            !.call = Call("delete_path", NoSha, path,
                                          \E r \in db.rows : r.file_path = path)]
        /\ UNCHANGED BesidesDb

NextDatabase ==
    \/ AddInvalid
    \/ AddSelect
    \/ AddCommit
    \/ AddRollback
    \/ update_media_file_fields
    \/ delete_media_file_by_sha
    \/ delete_media_file_by_path

SpecDatabase == Init /\ [][NextDatabase]_vars

\* The row of the table that holds a path under another sha.
HeldByOther(T, sha, path) ==
    {r \in T : r.file_path = path /\ r.sha256_hex # sha}

\* C25: after any sequence of calls the table has at most one row per
\* sha256_hex and at most one per file_path; an add_or_update_media_file
\* for a path held by another sha commits the new row and the removal of
\* the older one in one step, every row it removes being one the new row
\* replaces; a call that would break uniqueness returns failure and leaves
\* the table as it was.
C25_DatabaseUnique ==
    /\ [](primary_key(db.rows) /\ unique_file_path(db.rows) /\ not_null(db.rows))
    /\ [][AddCommit =>
            LET row == db.txn.row
            IN  /\ row \in db'.rows
                /\ HeldByOther(db'.rows, row.sha256_hex, row.file_path) = {}
                /\ \A r \in db.rows \ db'.rows :
                       \/ r.sha256_hex = row.sha256_hex
                       \/ r.file_path = row.file_path
                       \/ r.sha256_hex \in db.txn.existing]_vars
    /\ [][\A sha \in Hashes, path \in Paths \cup {NoPath} :
            (/\ db'.call = Call("update", sha, path, db'.call.ok)
             /\ db'.txn = db.txn
             /\ db'.rows \in {db.rows, update_set(db.rows, sha, path)}
             /\ \/ HeldByOther(db.rows, sha, path) # {}
                \/ path = NoPath
             /\ \E r \in db.rows : r.sha256_hex = sha)
            => (db'.rows = db.rows /\ ~db'.call.ok)]_vars

\* An add has replaced the holder of a path by a row of another sha, and
\* a later update that would have given two rows one path was refused.
C25_Witness ==
    /\ db.replaced
    /\ db.call.op = "update"
    /\ ~db.call.ok
    /\ HeldByOther(db.rows, db.call.sha256_hex, db.call.file_path) # {}
    /\ \E r \in db.rows : r.sha256_hex = db.call.sha256_hex
    /\ Cardinality(db.rows) = 3

\* ------------------------------------------------------------------
\* The geometry of one thumbnail (generate_thumbnail, lines 77-95): the
\* opened source with its size and the alpha of its pixels, the size
\* img.thumbnail reduces it to, the canvas and the place it is pasted at.
\* ------------------------------------------------------------------

THUMBNAIL_SIZE == <<256, 256>>

\* The sides of the sources that are opened: smaller than the bound, at
\* it, just past it, far past it.
SourceSides == {1, 2, 3, 100, 255, 256, 257, 400, 511, 600, 1000}

\* The alpha of the pixels of a source: opaque, or translucent as an RGBA
\* source can be.
OPAQUE == 255
SourceAlphas == {OPAQUE, 128}

Abs(n) == IF n < 0 THEN 0 - n ELSE n

\* round_aspect of Image.thumbnail for the width of a source that is no
\* wider than the bound's shape: of floor and ceil of y * W / H the one
\* whose ratio to y is closer to W / H, at least 1.
round_aspect_x(W, H, y) ==
    LET f == (y * W) \div H
        c == IF f * H = y * W THEN f ELSE f + 1
        n == IF Abs(W * y - f * H) <= Abs(W * y - c * H) THEN f ELSE c
    IN  IF n < 1 THEN 1 ELSE n

\* round_aspect for the height of a wider source: of floor and ceil of
\* x * H / W the one for which x / n is closer to W / H (0 is taken when
\* it is the floor), at least 1.
round_aspect_y(W, H, x) ==
    LET f == (x * H) \div W
        c == IF f * W = x * H THEN f ELSE f + 1
        n == IF f = 0 THEN 0
             ELSE IF Abs(W * f - x * H) * c <= Abs(W * c - x * H) * f THEN f ELSE c
    IN  IF n < 1 THEN 1 ELSE n

\* img.thumbnail as a resize to the whole bound.
Image_thumbnail_Stretch(size, target) == target

\* img.thumbnail(target_size): a source that fits is left as it is, any
\* other is reduced so that it fits, its aspect ratio kept.
Image_thumbnail(size, target) ==
    LET W == size[1]
        H == size[2]
        x == target[1]
        y == target[2]
    IN  IF x >= W /\ y >= H THEN size
        ELSE IF x * H >= y * W THEN <<round_aspect_x(W, H, y), y>>
        ELSE <<x, round_aspect_y(W, H, x)>>

\* The paste at the corner of the canvas.
paste_position_Corner(target, size) == <<0, 0>>

\* paste_x, paste_y: the reduced image is centered.
paste_position(target, size) ==
    <<(target[1] - size[1]) \div 2, (target[2] - size[2]) \div 2>>

\* Image.open(source_image_path): a source of some size and alpha.
OpenImage ==
    \E W \in SourceSides, H \in SourceSides, a \in SourceAlphas :
        /\ img' = [NoImage EXCEPT !.stage = "opened", !.size = <<W, H>>, !.alpha = a]
        /\ UNCHANGED BesidesImg

\* The body of the with block: thumbnail, new transparent RGBA canvas,
\* paste without a mask.
ComposeThumbnail ==
    /\ img.stage = "opened"
    /\ LET small == Image_thumbnail(img.size, THUMBNAIL_SIZE)
       IN  img' = [img EXCEPT !.stage = "composed",
                              !.canvas = THUMBNAIL_SIZE,
                              !.pasted = small,
                              !.paste = paste_position(THUMBNAIL_SIZE, small)]
    /\ UNCHANGED BesidesImg

NextGeometry ==
    \/ OpenImage
    \/ ComposeThumbnail

SpecGeometry == Init /\ [][NextGeometry]_vars

\* Whether pixel (x, y) of the canvas lies in the pasted area.
InPasted(I, x, y) ==
    /\ I.paste[1] <= x /\ x < I.paste[1] + I.pasted[1]
    /\ I.paste[2] <= y /\ y < I.paste[2] + I.pasted[2]

\* The alpha of pixel (x, y) of the composed thumbnail: the canvas is
\* created with alpha 0, a paste without a mask copies the alpha of the
\* source.
canvas_alpha(I, x, y) == IF InPasted(I, x, y) THEN I.alpha ELSE 0

CanvasX == 0..(THUMBNAIL_SIZE[1] - 1)
CanvasY == 0..(THUMBNAIL_SIZE[2] - 1)

\* The canvas, the fit, the aspect ratio, the centering and the padding
\* of a composed thumbnail.
Letterboxed(I) ==
    LET W == I.size[1]
        H == I.size[2]
        w == I.pasted[1]
        h == I.pasted[2]
        X == THUMBNAIL_SIZE[1]
        Y == THUMBNAIL_SIZE[2]
    IN  /\ I.canvas = <<256, 256>>
        /\ 1 <= w /\ w <= 256 /\ 1 <= h /\ h <= 256
        /\ w <= W /\ h <= H
        \* a source that fits is not resized, any other touches the bound
        /\ (W <= 256 /\ H <= 256) => (w = W /\ h = H)
        /\ (W > 256 \/ H > 256) => (w = 256 \/ h = 256)
        \* the aspect ratio is kept up to the rounding to whole pixels
        /\ Abs(w * H - h * W) < (IF W > H THEN W ELSE H)
        \* nothing is cropped: the pasted area lies within the canvas
        /\ I.paste = <<(256 - w) \div 2, (256 - h) \div 2>>
        /\ 0 <= I.paste[1] /\ I.paste[1] + w <= X
        /\ 0 <= I.paste[2] /\ I.paste[2] + h <= Y
        \* centered: the margins of an axis differ by at most one pixel
        /\ Abs((X - w - I.paste[1]) - I.paste[1]) <= 1
        /\ Abs((Y - h - I.paste[2]) - I.paste[2]) <= 1
        /\ \A x \in CanvasX, y \in CanvasY :
               ~InPasted(I, x, y) => canvas_alpha(I, x, y) = 0

FullyOpaque(I) ==
    \A x \in CanvasX, y \in CanvasY : canvas_alpha(I, x, y) = OPAQUE

\* C26 as stated: every composed thumbnail is letterboxed as above, and
\* that of a square source of side 256 or more is fully opaque.
C26_Geometry ==
    img.stage = "composed" =>
        /\ Letterboxed(img)
        /\ (img.size[1] = img.size[2] /\ img.size[1] >= 256) => FullyOpaque(img)

\* C26, amended: every composed thumbnail is a 256 x 256 canvas on which
\* the source, reduced to fit with its aspect ratio kept and never
\* cropped, is pasted centered, every pixel outside the pasted area being
\* fully transparent; that of an opaque square source of side 256 or more
\* is fully opaque, the pasted area covering the canvas.
C26_GeometryOpaqueSource ==
    img.stage = "composed" =>
        /\ Letterboxed(img)
        /\ (img.size[1] = img.size[2] /\ img.size[1] >= 256) =>
               /\ \A x \in CanvasX, y \in CanvasY : InPasted(img, x, y)
               /\ img.alpha = OPAQUE => FullyOpaque(img)

\* A 600 x 400 source has been composed with padding above and below.
C26_Witness ==
    /\ img.stage = "composed"
    /\ img.size = <<600, 400>>
    /\ img.pasted = <<256, 171>>
    /\ img.paste = <<0, 42>>
    /\ canvas_alpha(img, 0, 0) = 0
    /\ canvas_alpha(img, 128, 128) = img.alpha

\* ------------------------------------------------------------------
\* put_image (server.py 247-391): up.files is the upload directory of the
\* day (name -> content, a content being known by its digest), up.rows
\* the media_files rows, up.req the request each thread is handling.
\* ------------------------------------------------------------------

\* Uploads are accepted while the directory holds fewer files than this.
MaxUploads == 3

\* The base names requests ask for.
Bases == {"a", "b"}

\* db_utils.get_media_file_by_sha: no entry found, whatever the table.
get_media_file_by_sha_None(T, sha) == {}

\* db_utils.get_media_file_by_sha(db_path, sha256_hash).
get_media_file_by_sha(T, sha) == {r \in T : r.sha256_hex = sha}

RECURSIVE free_name_from(_, _, _)
\* The while loop of lines 309-312 from a counter on.
free_name_from(F, base, counter) ==
    IF UploadName(base, counter) \in DOMAIN F
    THEN free_name_from(F, base, counter + 1)
    ELSE UploadName(base, counter)

\* The name taken without looking at the directory.
free_name_AsAsked(F, base) == UploadName(base, 0)

\* final_filename_on_disk: base.ext, or base_N.ext for the first N from 1
\* on such that no file of that name exists.
free_name(F, base) == free_name_from(F, base, 0)

\* open(prospective_path_on_disk_abs, "wb") and write: the file is created
\* or, when it exists, truncated and written anew.
save_file(F, name, content) ==
    [n \in DOMAIN F \cup {name} |-> IF n = name THEN content ELSE F[n]]

\* The row put_image hands to add_or_update_media_file.
media_data(sha, name) ==
    [sha256_hex |-> sha, file_path |-> name, last_modified |-> 1]

\* Lines 262-293: the request is read, its content hashed and looked up;
\* content that has a row is answered 200 with that row's file_path.
PutCheck(h, base, content) ==
    /\ up.req[h].pc = "idle"
    /\ Cardinality(DOMAIN up.files) < MaxUploads
    /\ LET existing_entry == get_media_file_by_sha(up.rows, content)
       IN  IF existing_entry # {}
           THEN up' = [up EXCEPT !.req[h] =
                          [NoRequest EXCEPT !.status = 200,
                                            !.file_path = (CHOOSE r \in existing_entry : TRUE).file_path]]
           ELSE up' = [up EXCEPT !.req[h] =
                          [NoRequest EXCEPT !.pc = "checked", !.base = base,
                                            !.content = content]]
    /\ UNCHANGED BesidesUp

\* Lines 295-312: the name the file will be saved under.
PutName(h) ==
    /\ up.req[h].pc = "checked"
    /\ up' = [up EXCEPT !.req[h].pc = "named",
                        !.req[h].target = free_name(up.files, up.req[h].base)]
    /\ UNCHANGED BesidesUp

\* Lines 314-319: the content is written to that name.
PutSave(h) ==
    /\ up.req[h].pc = "named"
    /\ up' = [up EXCEPT !.req[h].pc = "saved",
                        !.files = save_file(up.files, up.req[h].target, up.req[h].content)]
    /\ UNCHANGED BesidesUp

\* Lines 321-391: the row is added and the request answered 201.
PutRecord(h) ==
    /\ up.req[h].pc = "saved"
    /\ LET row == media_data(up.req[h].content, up.req[h].target)
       IN  up' = [up EXCEPT
                     !.rows = insert_or_replace(
                                  delete_sha(up.rows, existing_sha_for_path(up.rows, row)), row),
                     !.req[h] = [NoRequest EXCEPT !.status = 201,
                                                  !.file_path = up.req[h].target]]
    /\ UNCHANGED BesidesUp

\* No other thread is handling a request.
OneAtATime(h) == \A g \in Handlers \ {h} : up.req[g].pc = "idle"

\* Requests handled one after the other.
NextUploadSequence ==
    \E h \in Handlers :
        \/ \E base \in Bases, content \in Hashes :
               OneAtATime(h) /\ PutCheck(h, base, content)
        \/ PutName(h)
        \/ PutSave(h)
        \/ PutRecord(h)

SpecUploadSequence == Init /\ [][NextUploadSequence]_vars

\* Requests handled by the threads of the server as they come.
NextUploads ==
    \E h \in Handlers :
        \/ \E base \in Bases, content \in Hashes : PutCheck(h, base, content)
        \/ PutName(h)
        \/ PutSave(h)
        \/ PutRecord(h)

SpecUploads == Init /\ [][NextUploads]_vars

\* The files of the upload directory that hold a content.
StoredAs(F, content) == {n \in DOMAIN F : F[n] = content}

C28_NoOverwrite ==
    /\ [][\A n \in DOMAIN up.files :
            n \in DOMAIN up'.files /\ up'.files[n] = up.files[n]]_vars
    /\ [][\A h \in Handlers :
            (PutSave(h) /\ StoredAs(up.files, up.req[h].content) = {}) =>
                LET t == up.req[h].target
                IN  /\ t \notin DOMAIN up.files
                    /\ \A m \in 0..(t.counter - 1) :
                           UploadName(t.base, m) \in DOMAIN up.files]_vars
    /\ [][\A r \in up.rows : r \in up'.rows]_vars

\* ------------------------------------------------------------------
\* GET /thumbnail/<sha256_hex> (server.py 456-500): web.isdir tells
\* whether THUMBNAIL_DIR is a directory, web.entries are the rows of the
\* database (thumbnail_file and mime_type), web.files the thumbnails on
\* disk, web.status and web.asked the last response and its request.
\* ------------------------------------------------------------------

\* Arguments of the route that are no digest: too short, not hexadecimal.
ShortSha == <<"a">>
NonHexSha == <<"g", "g", "g">>

HexDigits == {"0", "1", "2", "3", "4", "5", "6", "7", "8", "9",
              "a", "b", "c", "d", "e", "f", "A", "B", "C", "D", "E", "F"}

\* len(sha256_hex) == 64 and all characters hexadecimal, a digest having
\* here the length of H1.
valid_sha256(sha) ==
    /\ Len(sha) = Len(H1)
    /\ \A i \in 1..Len(sha) : sha[i] \in HexDigits

\* A row as the route reads it.
Entry(thumbnail_file, mime_type) ==
    [thumbnail_file |-> thumbnail_file, mime_type |-> mime_type]

\* The rows a digest can have: an image with its thumbnail, an image
\* without (generation failed), a video.
EntriesOf(h) == {Entry(ShardedThumb(h), <<"image", "jpeg">>),
                 Entry(NoThumb, <<"image", "jpeg">>),
                 Entry(NoThumb, <<"video", "mp4">>)}

\* The status get_thumbnail answers with.
thumbnail_status(W, sha) ==
    IF ~valid_sha256(sha) THEN 400
    ELSE IF sha \notin DOMAIN W.entries THEN 404
    ELSE IF W.entries[sha].thumbnail_file = NoThumb THEN 404
    ELSE IF ~W.isdir THEN 500
    ELSE IF W.entries[sha].thumbnail_file \in W.files THEN 200
    ELSE 404

\* GET /thumbnail/<sha256_hex>.
GetThumbnail(sha) ==
    /\ web' = [web EXCEPT !.status = thumbnail_status(web, sha), !.asked = sha]
    /\ UNCHANGED BesidesWeb

\* A row is added or replaced (scan or upload).
SetEntry ==
    \E h \in Hashes :
        \E e \in EntriesOf(h) :
            /\ web' = [web EXCEPT !.entries =
                           [k \in DOMAIN web.entries \cup {h} |->
                               IF k = h THEN e ELSE web.entries[k]],
                                  !.status = 0, !.asked = NoSha]
            /\ UNCHANGED BesidesWeb

\* A thumbnail is written below the thumbnail directory.
WriteThumbnail ==
    \E h \in Hashes :
        /\ web.isdir
        /\ ShardedThumb(h) \notin web.files
        /\ web' = [web EXCEPT !.files = web.files \cup {ShardedThumb(h)},
                              !.status = 0, !.asked = NoSha]
        /\ UNCHANGED BesidesWeb

\* A thumbnail is removed from disk while its row stays.
LoseThumbnail ==
    \E t \in web.files :
        /\ web' = [web EXCEPT !.files = web.files \ {t},
                              !.status = 0, !.asked = NoSha]
        /\ UNCHANGED BesidesWeb

\* The thumbnail directory is removed with all it holds, or the server is
\* pointed at a directory that does not exist.
RemoveThumbnailDir ==
    /\ web.isdir
    /\ web' = [web EXCEPT !.isdir = FALSE, !.files = {},
                          !.status = 0, !.asked = NoSha]
    /\ UNCHANGED BesidesWeb

\* os.makedirs(thumbnail_dir, exist_ok=True) of the next scan.
MakeThumbnailDir ==
    /\ ~web.isdir
    /\ web' = [web EXCEPT !.isdir = TRUE, !.status = 0, !.asked = NoSha]
    /\ UNCHANGED BesidesWeb

NextThumbnailRoute ==
    \/ \E sha \in Hashes \cup {ShortSha, NonHexSha} : GetThumbnail(sha)
    \/ SetEntry
    \/ WriteThumbnail
    \/ LoseThumbnail
    \/ RemoveThumbnailDir
    \/ MakeThumbnailDir

SpecThumbnailRoute == Init /\ [][NextThumbnailRoute]_vars

\* C29: GET /thumbnail/<sha> for a cataloged image whose row has a
\* thumbnail reference is answered 404 when the thumbnail directory is
\* missing.
C29_MissingDirIs404 ==
    [][\A sha \in Hashes :
          (/\ GetThumbnail(sha)
           /\ sha \in DOMAIN web.entries
           /\ web.entries[sha].thumbnail_file # NoThumb
           /\ ~web.isdir)
          => web'.status = 404]_vars

\* ------------------------------------------------------------------
\* PUT /api/settings and background_scanner_task (server.py 104-144,
\* 440-453, 567-572).  bg.flag is app.config['RESCAN_INTERVAL'],
\* bg.settings the rescan_interval held by settings_manager, bg.thread
\* where the scanner thread stands, bg.rescan_interval the local variable
\* its loop sleeps by, bg.remaining what is left of its sleep, bg.status
\* the last response of the settings route.  Time is counted in ticks.
\* ------------------------------------------------------------------

\* The longest rescan interval, in ticks.
MaxInterval == 3

Intervals == 0..MaxInterval

\* run_flask_app: the flag is copied into app.config, settings_manager
\* reads settings.json, the scanner thread is started when the flag is
\* positive.
StartServer ==
    \E flag \in Intervals :
        /\ ~bg.running
        /\ bg' = [bg EXCEPT !.running = TRUE, !.flag = flag,
                            !.thread = IF flag > 0 THEN "starting" ELSE "none",
                            !.rescan_interval = 0, !.remaining = 0, !.status = 0]
        /\ UNCHANGED BesidesBg

\* The server process ends, its daemon thread with it; settings.json stays.
StopServer ==
    /\ bg.running
    /\ bg' = [bg EXCEPT !.running = FALSE, !.thread = "none",
                        !.rescan_interval = 0, !.remaining = 0, !.status = 0]
    /\ UNCHANGED BesidesBg

\* background_scanner_task after its first sleep: the interval is read
\* from app.config once; with none the task returns.
ScannerBegin ==
    /\ bg.thread = "starting"
    /\ bg' = [bg EXCEPT !.rescan_interval = bg.flag,
                        !.thread = IF bg.flag <= 0 THEN "returned" ELSE "scanning"]
    /\ UNCHANGED BesidesBg

\* One cycle of the loop: the rescan, then time.sleep(rescan_interval).
ScannerCycle ==
    /\ bg.thread = "scanning"
    /\ bg' = [bg EXCEPT !.thread = "sleeping", !.remaining = bg.rescan_interval]
    /\ UNCHANGED BesidesBg

\* A tick of the sleep; the loop goes on when none is left.
ScannerSleep ==
    /\ bg.thread = "sleeping"
    /\ bg' = [bg EXCEPT !.remaining = bg.remaining - 1,
                        !.thread = IF bg.remaining = 1 THEN "scanning" ELSE "sleeping"]
    /\ UNCHANGED BesidesBg

\* put_settings with a valid body: settings_manager.write_settings.
PutSettings(n) ==
    /\ bg.running
    /\ bg' = [bg EXCEPT !.settings = n, !.status = 200]
    /\ UNCHANGED BesidesBg

\* put_settings with no JSON body or one that is no Settings: 400.
PutSettingsInvalid ==
    /\ bg.running
    /\ bg' = [bg EXCEPT !.status = 400]
    /\ UNCHANGED BesidesBg

NextSettings ==
    \/ StartServer
    \/ StopServer
    \/ ScannerBegin
    \/ ScannerCycle
    \/ ScannerSleep
    \/ \E n \in Intervals : PutSettings(n)
    \/ PutSettingsInvalid

SpecSettings == Init /\ [][NextSettings]_vars

\* The scanner thread is waiting for its next cycle, or idle because
\* there is no interval.
ScannerWaiting == bg.thread \in {"sleeping", "none", "returned"}

\* C30: when PUT /api/settings changes the rescan interval while the
\* scanner waits for its next cycle (or is idle, the interval being 0), the
\* scanner is woken: its wait is over and the interval it goes on with is
\* the new one, without a restart.
C30_SettingsWakeScanner ==
    [][\A n \in Intervals :
          (/\ PutSettings(n)
           /\ n # bg.settings
           /\ n > 0
           /\ ScannerWaiting)
          => /\ bg'.thread = "scanning"
             /\ bg'.rescan_interval = n]_vars

\* ------------------------------------------------------------------
\* GeoLocator (geolocator.py 13-70): geo.instance tells whether
\* _instance is set, geo.initialised whether an __init__ has finished,
\* geo.cities holds the numbers of the CSV rows appended, geo.lock the
\* thread holding _lock (0 for none), geo.th where each thread stands and
\* what list of cities there was when it last found loaded True.
\* ------------------------------------------------------------------

\* The number of rows of the CSV file after its header.
MaxRows == 3

CsvRows == 1..MaxRows

\* Thread t moves to pc, its row counter set to row.
At(t, pc_, row) == [geo.th EXCEPT ![t].pc = pc_, ![t].row = row]

\* Thread t returns from load_cities having found loaded True, the list
\* of cities holding all the rows of the file in their order, or not.
Found(t) ==
    [geo.th EXCEPT ![t] = [pc |-> "idle", row |-> 0,
                           saw |-> IF geo.cities = [i \in CsvRows |-> i]
                                   THEN "all" ELSE "other"]]

\* __new__: the instance is created under the lock when there is none,
\* and returned as it is otherwise.
new_instance(G) == [G EXCEPT !.instance = TRUE]

\* GeoLocator(): __new__ returns the instance; being an instance of the
\* class, Python then calls __init__ on it.
GeoNew(t) ==
    /\ geo.th[t].pc = "idle"
    /\ geo.instance \/ geo.lock = 0
    /\ geo' = [new_instance(geo) EXCEPT !.th = At(t, "init", 0)]
    /\ UNCHANGED BesidesGeo

\* __init__, first statement: self.cities = [].
GeoInitCities(t) ==
    /\ geo.th[t].pc = "init"
    /\ geo' = [geo EXCEPT !.cities = <<>>, !.th = At(t, "init_loaded", 0)]
    /\ UNCHANGED BesidesGeo

\* __init__, second statement: self.loaded = False.
GeoInitLoaded(t) ==
    /\ geo.th[t].pc = "init_loaded"
    /\ geo' = [geo EXCEPT !.loaded = FALSE, !.initialised = TRUE,
                          !.th = At(t, "idle", 0)]
    /\ UNCHANGED BesidesGeo

\* load_cities, line 53: return when loaded, go for the lock otherwise.
LoadCheck(t) ==
    /\ geo.th[t].pc = "idle"
    /\ geo.initialised
    /\ geo' = [geo EXCEPT !.th = IF geo.loaded THEN Found(t) ELSE At(t, "wait", 0)]
    /\ UNCHANGED BesidesGeo

\* with self._lock.
LoadAcquire(t) ==
    /\ geo.th[t].pc = "wait"
    /\ geo.lock = 0
    /\ geo' = [geo EXCEPT !.lock = t, !.th = At(t, "locked", 0)]
    /\ UNCHANGED BesidesGeo

\* The append without the second look at the flag.
recheck_Skipped(G) == FALSE

\* Line 56: the flag is read again under the lock.
recheck(G) == G.loaded

\* Lines 56-60: return when loaded by now, else open the file and skip
\* its header.
LoadRecheck(t) ==
    /\ geo.th[t].pc = "locked"
    /\ geo' = IF recheck(geo)
              THEN [geo EXCEPT !.lock = 0, !.th = Found(t)]
              ELSE [geo EXCEPT !.th = At(t, "reading", 1)]
    /\ UNCHANGED BesidesGeo

\* One turn of the for loop: self.cities.append(City(...)).
LoadRow(t) ==
    /\ geo.th[t].pc = "reading"
    /\ geo.th[t].row \in CsvRows
    /\ geo' = [geo EXCEPT !.cities = Append(geo.cities, geo.th[t].row),
                          !.th = At(t, "reading", geo.th[t].row + 1)]
    /\ UNCHANGED BesidesGeo

\* Line 70 and the end of the with block: self.loaded = True, the lock
\* is released.
LoadFinish(t) ==
    /\ geo.th[t].pc = "reading"
    /\ geo.th[t].row \notin CsvRows
    /\ geo' = [geo EXCEPT !.loaded = TRUE, !.lock = 0, !.th = At(t, "idle", 0)]
    /\ UNCHANGED BesidesGeo

\* Any use of the class by any thread.
NextGeoLocator ==
    \E t \in Threads :
        \/ GeoNew(t)
        \/ GeoInitCities(t)
        \/ GeoInitLoaded(t)
        \/ LoadCheck(t)
        \/ LoadAcquire(t)
        \/ LoadRecheck(t)
        \/ LoadRow(t)
        \/ LoadFinish(t)

SpecGeoLocator == Init /\ [][NextGeoLocator]_vars

\* The instance is created once; from then on the threads only call
\* load_cities on it.
NextLoadCities ==
    \E t \in Threads :
        \/ ~geo.instance /\ GeoNew(t)
        \/ GeoInitCities(t)
        \/ GeoInitLoaded(t)
        \/ LoadCheck(t)
        \/ LoadAcquire(t)
        \/ LoadRecheck(t)
        \/ LoadRow(t)
        \/ LoadFinish(t)

SpecLoadCities == Init /\ [][NextLoadCities]_vars

\* C31: the initialisation of the singleton runs only when the instance
\* is first created: a GeoLocator() call made when the instance exists
\* and has loaded its cities changes neither cities nor loaded.
C31_InitialisedOnce ==
    [][\A t \in Threads :
          (/\ geo.instance /\ geo.initialised /\ geo.loaded
           /\ \/ GeoNew(t)
              \/ GeoInitCities(t)
              \/ GeoInitLoaded(t))
          => /\ geo'.cities = geo.cities
             /\ geo'.loaded = geo.loaded]_vars

\* How often a row stands in the list of cities.
Times_In(row, cities) == Cardinality({i \in 1..Len(cities) : cities[i] = row})

\* C32: whatever the interleaving of load_cities calls on the singleton,
\* no row is appended twice, once loaded is True every row has been
\* appended exactly once, and a thread that found loaded True found all
\* the rows appended.
C32_LoadedOnce ==
    /\ \A row \in CsvRows : Times_In(row, geo.cities) <= 1
    /\ geo.loaded => \A row \in CsvRows : Times_In(row, geo.cities) = 1
    /\ \A t \in Threads : geo.th[t].saw \in {"nothing", "all"}

\* The cities are loaded and a thread has found them so, while one that
\* found them not loaded has since got the lock and is about to look again
\* and another waits for the lock.
C32_Witness ==
    /\ geo.loaded
    /\ \E t \in Threads : geo.th[t].saw = "all"
    /\ Len(geo.cities) = MaxRows
    /\ \E t \in Threads : geo.th[t].pc = "locked"
    /\ \E t \in Threads : geo.th[t].pc = "wait"

\* ------------------------------------------------------------------
\* Passes over files that cannot be hashed: unreadable ones, and ones
\* that vanish during the pass.
\* ------------------------------------------------------------------

NextHashFailures ==
    \/ InitialScan
    \/ Rescan
    \/ RacingPass
    \/ WriteFile
    \/ Chmod

SpecHashFailures == Init /\ [][NextHashFailures]_vars

\* After the step no record is left for path p, and thumbnail t, if it
\* was there, has been deleted.
Gone(p, t) ==
    /\ \A j \in DOMAIN catalog' : catalog'[j].file_path # p
    /\ t \in thumbs => t \in lastScan'.deleted

\* After the step the record of k and its thumbnail t are as before.
Kept(k, t) ==
    /\ k \in DOMAIN catalog'
    /\ catalog'[k] = catalog[k]
    /\ t \in thumbs => (t \in thumbs' /\ t \notin lastScan'.deleted)

\* No readable media file other than p has content k.
NoOtherCopy(k, p) == \A q \in Ingestible(fs) \ {p} : fs[q].sha # k

\* C33: in a rescan, a known record whose file has a changed modification
\* time and cannot be hashed, or whose modification time cannot be read,
\* is removed and its thumbnail deleted; a known record whose file has
\* the recorded modification time and cannot be hashed in the walk stays
\* as it is, with its thumbnail (no other file holding its content).
C33_HashFailureOnKnown ==
    /\ [][Rescan =>
            \A k \in DOMAIN catalog :
                LET p == catalog[k].file_path
                    t == catalog[k].thumbnail_file
                IN  (p \in DOMAIN fs /\ ~fs[p].readable) =>
                        IF fs[p].mtime # catalog[k].last_modified
                        THEN Gone(p, t)
                        ELSE NoOtherCopy(k, p) => Kept(k, t)]_vars
    /\ [][\A p \in DOMAIN fs, at \in {"v_meta", "v_hash", "w_hash"} :
            RacedOn(TRUE, p, at) =>
                \A k \in DOMAIN catalog :
                    LET t == catalog[k].thumbnail_file
                        changed == fs[p].mtime # catalog[k].last_modified
                    IN  catalog[k].file_path = p =>
                            /\ at = "v_meta" => Gone(p, t)
                            /\ (at = "v_hash" /\ changed) => Gone(p, t)
                            /\ (at = "w_hash" /\ ~changed /\ NoOtherCopy(k, p))
                                   => Kept(k, t)]_vars

\* A rescan has removed the record of an unreadable image with a new
\* modification time and deleted its thumbnail.
C33_Witness ==
    /\ lastScan.mode = "rescan"
    /\ lastScan.race = "none"
    /\ catalog = <<>>
    /\ \E p \in DOMAIN fs :
          /\ is_image(p)
          /\ ~fs[p].readable
          /\ lastScan.deleted = {ShardedThumb(fs[p].sha)}

\* C34: a pass run with rescan = False deletes no record the catalog held
\* before it and no thumbnail of such a record, also when the file of the
\* record is missing from disk.
C34_InitialScanDeletesNothing ==
    [][InitialScan =>
          \A k \in DOMAIN catalog :
              /\ k \in DOMAIN catalog'
              /\ catalog[k].thumbnail_file \in thumbs =>
                     catalog[k].thumbnail_file \in thumbs']_vars

----------------------------------------------------------------------------
(* Legacy thumbnail layout: an older cache kept the thumbnail of a hash as *)
(* <hash>.png directly in the thumbnail directory and recorded that name,  *)
(* or no name at all, as thumbnail_file.                                   *)

\* The catalog and the thumbnail directory are brought to the legacy state
\* for one record: its sharded thumbnail becomes the flat file and the
\* record holds the flat name or None.
LegacyLayout ==
    \E k \in DOMAIN catalog : \E v \in {NoThumb, FlatThumb(k)} :
        /\ rootExists
        /\ changes < MaxChanges
        /\ catalog[k].thumbnail_file = ShardedThumb(k)
        /\ ShardedThumb(k) \in thumbs
        /\ catalog' = [catalog EXCEPT ![k].thumbnail_file = v]
        /\ thumbs' = (thumbs \ {ShardedThumb(k)}) \cup {FlatThumb(k)}
        /\ shards' = {d \in shards : \E t \in thumbs' : t.dir = d}
        /\ changes' = changes + 1
        /\ clean' = FALSE
        /\ UNCHANGED <<rootExists, fs, listing, lastScan, blocked>>
        /\ UNCHANGED conc
        /\ UNCHANGED apart

NextLegacy ==
    \/ InitialScan
    \/ Rescan
    \/ WriteFile
    \/ PlantThumb
    \/ LegacyLayout

SpecLegacy == Init /\ [][NextLegacy]_vars

\* The image p is the only file of its content, can be read and decoded,
\* and the flat file is the only thumbnail of its hash.
OnlyFlatThumbnail(p) ==
    /\ is_image(p)
    /\ fs[p].readable
    /\ fs[p].decodable
    /\ \A q \in DOMAIN fs : fs[q].sha = fs[p].sha => q = p
    /\ FlatThumb(fs[p].sha) \in thumbs
    /\ ShardedThumb(fs[p].sha) \notin thumbs

\* The prior record of p's content: none, or one for p with the file's
\* modification time and with thumbnail_file None or the flat name.
PriorRecord(p) ==
    LET h == fs[p].sha
    IN  h \in DOMAIN catalog =>
            /\ catalog[h].file_path = p
            /\ catalog[h].last_modified = fs[p].mtime
            /\ catalog[h].thumbnail_file \in {NoThumb, FlatThumb(h)}

Healed(p) ==
    LET h == fs[p].sha
    IN  /\ h \in DOMAIN catalog'
        /\ catalog'[h].thumbnail_file = ShardedThumb(h)
        /\ ShardedThumb(h) \in thumbs'
        /\ FlatThumb(h) \notin thumbs'

\* C35: for an image whose only thumbnail is the legacy flat file, a pass in
\* either mode leaves the record with the sharded path as thumbnail_file,
\* the sharded file on disk and the flat file removed, whatever the prior
\* record held as thumbnail_file (no record, None or the flat name).
C35_FlatThumbnailHealed ==
    [][(InitialScan \/ Rescan) =>
          \A p \in DOMAIN fs :
              (OnlyFlatThumbnail(p) /\ PriorRecord(p)) => Healed(p)]_vars

----------------------------------------------------------------------------
(* The frame of the orphan cleanup. *)

\* What the cleanup of a pass over the present state starts from.
CleanupInput(rescan) ==
    before_cleanup(Views(Tree(fs, thumbs)), Views(Tree(fs, thumbs)),
                   thumbs, shards, catalog, rescan, os_walk(listing, thumbs))

\* What the cleanup leaves of S: the thumbnail directory stays, a file that
\* is no .png stays, a directory that holds a file afterwards stays, and so
\* does the file a record of the dict names as its thumbnail_file.
CleanupFrame(S, R) ==
    /\ ROOT \notin R.rmdirs
    /\ \A t \in S.T : t.ext # THUMBNAIL_EXTENSION => t \in R.T
    /\ \A d \in S.D : (\E t \in R.T : t.dir = d) => d \in R.D
    /\ \A d \in R.rmdirs : ~ \E t \in S.T : t.dir = d /\ t \in R.T
    /\ \A k \in DOMAIN R.data :
           R.data[k].thumbnail_file \in S.T => R.data[k].thumbnail_file \in R.T

\* C36: the cleanup phase of a pass never removes the thumbnail directory
\* itself, a file whose name does not end in .png, a shard directory that
\* still holds a file, or the thumbnail a live record names as its
\* thumbnail_file; what it leaves is what the pass leaves.
C36_CleanupFrame ==
    [][\A rescan \in BOOLEAN :
          (Pass(rescan) /\ rootExists /\ ~CleanupInput(rescan).raised) =>
              LET S == CleanupInput(rescan)
                  R == CleanupThumbnails(S)
              IN  /\ CleanupFrame(S, R)
                  /\ thumbs' = R.T
                  /\ shards' = R.D
                  /\ catalog' = R.data]_vars

\* An initial pass, whose only deletions are those of the cleanup, has
\* removed an orphan while a file that is no .png, a thumbnail of a live
\* record and a shard directory are left.
C36_Witness ==
    /\ lastScan.mode = "initial"
    /\ lastScan.deleted # {}
    /\ \E t \in thumbs : t.ext # THUMBNAIL_EXTENSION
    /\ \E k \in DOMAIN catalog : catalog[k].thumbnail_file \in thumbs
    /\ shards # {}

----------------------------------------------------------------------------
(* Soundness and completeness of the returned catalog. *)

\* The record of key k names a file that exists with content k.
Sound(data, F, k) ==
    /\ data[k].file_path \in DOMAIN F
    /\ F[data[k].file_path].sha = k

\* C37: when a rescan returns, every record of the returned catalog names a
\* file that exists and whose content hash is the record's key, whatever
\* was changed between the passes (content and modification time change
\* independently of each other).
C37_CatalogSound ==
    [][Rescan => \A k \in DOMAIN catalog' : Sound(catalog', fs', k)]_vars

\* A media file is stored in the directory sub/.thumbnails.
StoreNested ==
    \E h \in Hashes, t \in Times :
        /\ PathNested \notin DOMAIN fs
        /\ fs' = DictSet(fs, PathNested, [sha |-> h, mtime |-> t,
                                         readable |-> TRUE, decodable |-> TRUE])
        /\ Relisted
        /\ Edited
        /\ UNCHANGED <<thumbs, shards>>

NextNested ==
    \/ InitialScan
    \/ Rescan
    \/ WriteFile
    \/ Chmod
    \/ StoreNested

SpecNested == Init /\ [][NextNested]_vars

\* C38: when a pass of either mode returns, the content hash of every
\* readable media file below the storage root and outside the thumbnail
\* directory is a key of the returned catalog.
C38_CatalogComplete ==
    [][(InitialScan \/ Rescan) =>
          \A p \in DOMAIN fs' :
              (is_media_file(p) /\ fs'[p].readable) =>
                  fs'[p].sha \in DOMAIN catalog']_vars

----------------------------------------------------------------------------
(* An upload racing a pass.  put_image (server.py) saves the file, calls   *)
(* generate_thumbnail and then writes its record; scan_directory runs its  *)
(* validation loop and walk, and afterwards its cleanup, which reads the   *)
(* thumbnail directory as it is then and the dict as the walk left it.     *)
(* Neither takes a lock the other one takes.                               *)

\* Where an upload stores its file.
UploadPaths == {PathA, PathB}

\* scan_directory up to the end of the walk, on the tree as it is now.
RacePassWalk ==
    \E rescan \in BOOLEAN :
        LET S == CleanupInput(rescan)
        IN  /\ rootExists
            /\ ur.pass = "idle"
            /\ thumbs' = S.T
            /\ shards' = S.D
            /\ ur' = [ur EXCEPT !.pass = "walked", !.rescan = rescan, !.S = S]
            /\ UNCHANGED <<rootExists, fs, listing, catalog, changes, clean,
                           lastScan, blocked>>
            /\ UNCHANGED conc
            /\ UNCHANGED BesidesUr

\* The cleanup of the pass and its return: the thumbnail directory is read
\* now, current_media_data is what the walk left.
RacePassCleanup ==
    LET R == CleanupThumbnails([ur.S EXCEPT !.T = thumbs, !.D = shards])
    IN  /\ ur.pass = "walked"
        /\ Returned(R, ur.rescan, "none")
        /\ clean' = FALSE
        /\ ur' = [ur EXCEPT !.pass = "done",
                            !.swept = ur.thumb # NoThumb /\ ur.thumb \in R.deleted]
        /\ UNCHANGED <<rootExists, fs, listing, changes, blocked>>
        /\ UNCHANGED conc
        /\ UNCHANGED BesidesUr

\* put_image up to the end of f_save.write: content of a hash the database
\* does not hold is saved under a free name.
RacePutSave ==
    \E p \in UploadPaths \ DOMAIN fs, h \in Hashes, t \in Times :
        /\ rootExists
        /\ ur.put = "idle"
        /\ fs' = DictSet(fs, p, [sha |-> h, mtime |-> t, readable |-> TRUE,
                                 decodable |-> TRUE])
        /\ Relisted
        /\ ur' = [ur EXCEPT !.put = "saved", !.content = h, !.path = p]
        /\ UNCHANGED <<rootExists, thumbs, shards, catalog, changes, clean,
                       lastScan, blocked>>
        /\ UNCHANGED conc
        /\ UNCHANGED BesidesUr

\* put_image calls generate_thumbnail for the saved image.
RacePutThumbnail ==
    LET g == generate_thumbnail(PassState(<<>>, thumbs, shards), fs,
                                ur.path, ur.content)
    IN  /\ ur.put = "saved"
        /\ thumbs' = g[1].T
        /\ shards' = g[1].D
        /\ ur' = [ur EXCEPT !.put = "thumbed", !.thumb = g[2]]
        /\ UNCHANGED <<rootExists, fs, listing, catalog, changes, clean,
                       lastScan, blocked>>
        /\ UNCHANGED conc
        /\ UNCHANGED BesidesUr

\* put_image writes its record with add_or_update_media_file and answers.
RacePutRecord ==
    /\ ur.put = "thumbed"
    /\ ur' = [ur EXCEPT !.put = "recorded",
                        !.row = [sha256_hex |-> ur.content,
                                 file_path |-> ur.path,
                                 thumbnail_file |-> ur.thumb]]
    /\ UNCHANGED scanner
    /\ UNCHANGED BesidesUr

NextUploadRace ==
    \/ StoreImage
    \/ RacePassWalk
    \/ RacePassCleanup
    \/ RacePutSave
    \/ RacePutThumbnail
    \/ RacePutRecord

SpecUploadRace == Init /\ [][NextUploadRace]_vars

\* C39: once an upload and a pass over the same storage root have both
\* finished, in whatever order their steps were taken, the uploaded content
\* has its record, the thumbnail the record names exists, and the cleanup
\* of the pass has not removed the thumbnail the upload made.
C39_UploadSurvivesRescan ==
    (ur.put = "recorded" /\ ur.pass = "done") =>
        /\ ur.row.sha256_hex = ur.content
        /\ ur.row.thumbnail_file # NoThumb => ur.row.thumbnail_file \in thumbs
        /\ ~ur.swept

----------------------------------------------------------------------------
(* background_scanner_task (server.py): after a first sleep the thread     *)
(* reads storage_dir, db_path and the rescan interval from app.config; it  *)
(* returns when one is missing, else it loops: try the rescan, log an      *)
(* exception, close the thread's connection in the finally clause, sleep   *)
(* for the interval.  Time is counted in ticks.                            *)

\* The rescans counted; further ones leave the count as it is.
MaxCycles == 3

\* A variant of close_db_connection that leaves the connection as it is.
close_db_connection_Leaks(connection) == connection

\* close_db_connection: the connection of the thread, if there is one, is
\* closed and removed from thread_local.
close_db_connection(connection) == FALSE

\* if not storage_dir or not db_path or rescan_interval <= 0
not_configured(t) ==
    ~t.storage_dir \/ ~t.db_path \/ t.rescan_interval <= 0

\* The thread is started with some app.config.
TaskStart ==
    \E sd, dp \in BOOLEAN, n \in Intervals :
        /\ task.pc = "none"
        /\ task' = [task EXCEPT !.pc = "started", !.storage_dir = sd,
                                !.db_path = dp, !.rescan_interval = n]
        /\ UNCHANGED BesidesTask

\* time.sleep(5) is over and the configuration is read.
TaskConfigured ==
    /\ task.pc = "started"
    /\ task' = [task EXCEPT !.pc = IF not_configured(task) THEN "returned"
                                   ELSE "try"]
    /\ UNCHANGED BesidesTask

\* The try block: scan_directory returns or raises an Exception, in either
\* case with or without a connection opened for the thread on the way.
TaskRescan ==
    \E raises, opened \in BOOLEAN :
        /\ task.pc = "try"
        /\ task' = [task EXCEPT !.pc = IF raises THEN "except" ELSE "finally",
                                !.raised = raises,
                                !.failed = @ \/ raises,
                                !.connection = @ \/ opened,
                                !.cycles = IF @ < MaxCycles THEN @ + 1 ELSE @]
        /\ UNCHANGED BesidesTask

\* except Exception: the error is logged.
TaskExcept ==
    /\ task.pc = "except"
    /\ task' = [task EXCEPT !.pc = "finally"]
    /\ UNCHANGED BesidesTask

\* finally: db_utils.close_db_connection(); then time.sleep starts.
TaskFinally ==
    /\ task.pc = "finally"
    /\ task' = [task EXCEPT !.pc = "sleep",
                            !.connection = close_db_connection(@),
                            !.remaining = task.rescan_interval]
    /\ UNCHANGED BesidesTask

\* A tick of time.sleep(rescan_interval); the loop goes on when it is over.
TaskSleep ==
    /\ task.pc = "sleep"
    /\ task' = [task EXCEPT !.remaining = @ - 1,
                            !.pc = IF task.remaining = 1 THEN "try" ELSE "sleep"]
    /\ UNCHANGED BesidesTask

\* The steps of the thread once it is started.
TaskStep ==
    \/ TaskConfigured
    \/ TaskRescan
    \/ TaskExcept
    \/ TaskFinally
    \/ TaskSleep

NextScannerTask ==
    \/ TaskStart
    \/ TaskStep

\* The thread is a daemon thread of a running process: it is scheduled
\* again and again, and time.sleep returns.
SpecScannerTask == Init /\ [][NextScannerTask]_vars /\ WF_vars(TaskStep)

\* The connection is closed whenever a cycle is over, and the task has
\* returned only without a rescan and with a configuration that lacks
\* storage_dir, db_path or a positive interval.
TaskSafe ==
    /\ task.pc = "sleep" => ~task.connection
    /\ task.pc = "try" => ~task.connection
    /\ task.pc = "returned" => (task.cycles = 0 /\ not_configured(task))
    /\ (task.pc \notin {"none", "started", "returned"}) => ~not_configured(task)

\* C40: in background_scanner_task an exception raised by a rescan does not
\* end the loop, the thread's connection is closed after every cycle,
\* failed or not, another rescan is attempted after every sleep, and the
\* task returns without a rescan only when storage_dir, db_path or a
\* positive interval is missing.
C40_ScannerResilient ==
    /\ []TaskSafe
    /\ (task.pc = "except") ~> (task.pc = "try")
    /\ (task.pc = "sleep") ~> (task.pc = "try")
    /\ (task.pc = "started" /\ ~not_configured(task)) ~> (task.pc = "try")

\* A rescan has raised after leaving a connection open, the connection was
\* closed, and a later rescan has been made: the thread sleeps again.
C40_Witness ==
    /\ task.pc = "sleep"
    /\ task.failed
    /\ ~task.raised
    /\ task.cycles >= 2
    /\ ~task.connection

====
